---- MODULE Spec2Model ----
(***************************************************************************)
(* Burrow: the reversible cleanup engine (safety validator, scanner,       *)
(* trash/undo subsystem, cleaner and history) as a state machine over a    *)
(* small filesystem.                                                       *)
(*                                                                         *)
(* A path STRING is modelled by its split on "/": "/tmp/a" is              *)
(* <<"", "tmp", "a">>, "~/x" is <<"~", "x">>, "/" is <<"", "">> and        *)
(* "/tmp/a/" is <<"", "tmp", "a", "">>.  Concatenating two split strings   *)
(* is the string a + "/" + b.  The filesystem maps clean absolute paths to *)
(* nodes.  Symbolic links, hard links and ".." are outside the model.      *)
(***************************************************************************)
EXTENDS Integers, Sequences, FiniteSets, TLC

VARIABLES
    fs,         \* the filesystem: clean absolute path -> node
    now,        \* the wall clock, in seconds
    ret,        \* the last trash call: [op, err, session, prev]; for a restore,
                \* session is the session it undid
    args,       \* the path list handed to the last MoveToTrash
    moved,      \* the entries the last MoveToTrash renamed before it returned
    pre,        \* the filesystem as it was when the last MoveToTrash was called
    calls,      \* number of MoveToTrash calls made so far
    before,     \* the filesystem as it was when the last RestoreLast was called
    probe,      \* the path string last handed to IsSafe, <<>> if none
    verdict,    \* what IsSafe returned for it: [safe, reason]
    opts,       \* the ScanOptions of the running scan
    mainPc,     \* where Scan's own goroutine is: "idle", "spawn", "wait", "done"
    ri,         \* index of the next rule (or directory) Scan's loop looks at
    wk,         \* the worker goroutines: [pc, foundPaths, ruleSize, tmp]
    results,    \* Scan's shared results slice
    totalSize,  \* Scan's shared running total
    mu,         \* the mutex: 0 when free, else the worker holding it
    wg,         \* the WaitGroup counter
    out,        \* the ScanResults returned by Scan
    cfg,        \* the configuration the command line loaded
    cin,        \* the Results handed to the last Clean
    cres,       \* what the last Clean returned
    cpre        \* the filesystem as it was when the last Clean, or the last
                \* history Save, was called

trashVars == <<ret, args, moved, pre, calls, before>>
safeVars == <<probe, verdict>>
scanVars == <<opts, mainPc, ri, wk, results, totalSize, mu, wg, out>>
cleanVars == <<cfg, cin, cres, cpre>>
vars == <<fs, now, trashVars, safeVars, scanVars, cleanVars>>

----------------------------------------------------------------------------
(* Bounds *)

MaxTime == 2
MaxCalls == 1
MaxGit == 2

----------------------------------------------------------------------------
(* Strings *)

\* Every name of the model, in byte order: Rank realises Go's string "<".
NameOrder ==
    << "", ".", ".burrow", ".docker", ".git", ".npm", "/",
       "20260101_000001", "20260101_000002", "20260101_000003",
       "20260101_000004", "20260101_000005", "20260101_000006",
       "Apple", "Caches", "Desktop", "Documents", "Downloads", "Homebrew",
       "Library", "Movies", "Pictures", "System", "System-old", "Users",
       "_cacache", "_logs", "a", "ab", "b", "big", "bin", "binaries",
       "history.json", "important", "manifest.json", "me", "repo", "sbin", "tmp", "trash",
       "usr", "var", "work", "x", "y", "~" >>

Rank(n) == CHOOSE i \in 1..Len(NameOrder) : NameOrder[i] = n

\* The pairs <<a, b>> of names where a is a proper, non-empty prefix of b.
ProperPrefixes ==
    { <<".", ".npm">>, <<".", ".docker">>, <<".", ".git">>, <<".", ".burrow">>,
      <<"System", "System-old">>, <<"bin", "binaries">>, <<"a", "ab">>,
      <<"b", "bin">>, <<"b", "binaries">>, <<"b", "big">> }

NamePrefix(a, b) == a = "" \/ a = b \/ <<a, b>> \in ProperPrefixes

\* strings.HasPrefix(s, p) on the "/"-joined strings
HasPrefix(s, p) ==
    /\ Len(s) >= Len(p)
    /\ \A i \in 1..(Len(p) - 1) : s[i] = p[i]
    /\ NamePrefix(p[Len(p)], s[Len(p)])

IsAbs(s) == Len(s) >= 2 /\ s[1] = ""

Root == <<"", "">>

Comps(s) == SelectSeq(s, LAMBDA c : c # "" /\ c # ".")

\* filepath.Clean
Clean(s) ==
    IF IsAbs(s)
    THEN IF Comps(s) = <<>> THEN Root ELSE <<"">> \o Comps(s)
    ELSE IF Comps(s) = <<>> THEN <<".">> ELSE Comps(s)

\* filepath.Join(a, b)
Join(a, b) == Clean(a \o b)

\* filepath.Base
Base(s) ==
    IF Comps(s) # <<>> THEN <<Comps(s)[Len(Comps(s))]>>
    ELSE IF IsAbs(s) THEN Root ELSE <<".">>

\* filepath.Dir
Dir(s) == Clean([s EXCEPT ![Len(s)] = ""])

\* os.UserHomeDir() and the process's working directory
Home == <<"", "Users", "me">>
Cwd == <<"", "work">>

\* filepath.Abs
Abs(s) == IF IsAbs(s) THEN Clean(s) ELSE Join(Cwd, s)

\* safety.ExpandPath
ExpandPath(path) ==
    IF HasPrefix(path, <<"~", "">>) THEN Join(Home, Tail(path)) ELSE path

----------------------------------------------------------------------------
(* The filesystem *)

NoJSON == [ok |-> FALSE, timestamp |-> 0, entries |-> <<>>]

DirNode(m) ==
    [kind |-> "dir", data |-> 0, mtime |-> m, readable |-> TRUE, json |-> NoJSON]

FileNode(d, m) ==
    [kind |-> "file", data |-> d, mtime |-> m, readable |-> TRUE, json |-> NoJSON]

\* q is p or lies beneath p (clean absolute paths)
Under(p, q) ==
    \/ p = Root
    \/ Len(q) >= Len(p) /\ SubSeq(q, 1, Len(p)) = p

Parent(p) == IF Len(p) <= 2 THEN Root ELSE SubSeq(p, 1, Len(p) - 1)

\* the path string s names an existing node (a trailing slash needs a directory)
Exists(f, s) ==
    /\ Abs(s) \in DOMAIN f
    /\ (s[Len(s)] = "" => f[Abs(s)].kind = "dir")

IsDir(f, s) == Exists(f, s) /\ f[Abs(s)].kind = "dir"

Touch(f, p, t) == IF p \in DOMAIN f THEN [f EXCEPT ![p].mtime = t] ELSE f

\* os.Rename(oldname, newname) at time t
RenameOK(f, old, new) ==
    LET o == Abs(old)
        n == Abs(new)
    IN  /\ ~IsDir(f, new)
        /\ Exists(f, old)
        /\ o # Root
        /\ Parent(n) \in DOMAIN f
        /\ f[Parent(n)].kind = "dir"
        /\ (f[o].kind = "dir" => n \notin DOMAIN f /\ ~Under(o, n))
        /\ (new[Len(new)] = "" => f[o].kind = "dir")

RenameFS(f, old, new, t) ==
    LET o == Abs(old)
        n == Abs(new)
        gone == {q \in DOMAIN f : Under(o, q)}
        came == {n \o SubSeq(q, Len(o) + 1, Len(q)) : q \in gone}
        g == [q \in ((DOMAIN f) \ gone) \cup came |->
                IF q \in came
                THEN f[o \o SubSeq(q, Len(n) + 1, Len(q))]
                ELSE f[q]]
    IN  IF o = n THEN f ELSE Touch(Touch(g, Parent(o), t), Parent(n), t)

Rename(f, old, new, t) ==
    IF RenameOK(f, old, new)
    THEN [ok |-> TRUE, fs |-> RenameFS(f, old, new, t)]
    ELSE [ok |-> FALSE, fs |-> f]

\* the ancestors of p, p included, Root excluded
Chain(p) == {SubSeq(p, 1, k) : k \in 2..Len(p)} \ {Root}

\* os.MkdirAll(path) at time t
MkdirAll(f, path, t) ==
    LET p == Abs(path)
        missing == {q \in Chain(p) : q \notin DOMAIN f}
        blocked == \E q \in Chain(p) : q \in DOMAIN f /\ f[q].kind # "dir"
        first == {q \in missing : Parent(q) \in DOMAIN f}
        g == [q \in (DOMAIN f) \cup missing |->
                IF q \in missing THEN DirNode(t) ELSE f[q]]
    IN  IF blocked THEN [ok |-> FALSE, fs |-> f]
        ELSE IF missing = {} THEN [ok |-> TRUE, fs |-> f]
        ELSE [ok |-> TRUE,
              fs |-> Touch(g, Parent(CHOOSE q \in first : TRUE), t)]

\* os.WriteFile(path, content) at time t
WriteFile(f, path, node, t) ==
    LET p == Abs(path)
    IN  IF \/ IsDir(f, path)
           \/ Parent(p) \notin DOMAIN f
           \/ f[Parent(p)].kind # "dir"
        THEN [ok |-> FALSE, fs |-> f]
        ELSE [ok |-> TRUE,
              fs |-> Touch([q \in (DOMAIN f) \cup {p} |->
                               IF q = p THEN node ELSE f[q]],
                           Parent(p), t)]

\* os.RemoveAll(path) at time t
RemoveAll(f, path, t) ==
    LET p == Abs(path)
        gone == {q \in DOMAIN f : Under(p, q)}
    IN  IF p \notin DOMAIN f \/ p = Root THEN f
        ELSE Touch([q \in (DOMAIN f) \ gone |-> f[q]], Parent(p), t)

\* os.ReadDir(path): the names in the directory
Children(f, p) == {q \in DOMAIN f : q # Root /\ Parent(q) = p /\ q # p}

ReadDirOK(f, path) == IsDir(f, path) /\ f[Abs(path)].readable

----------------------------------------------------------------------------
(* The safety validator (internal/safety) *)

GitName == <<".git">>

\* filepath.Walk(root) reaches q: every directory from root down to q's parent
\* could be listed
Reached(f, root, q) ==
    /\ root \in DOMAIN f
    /\ q \in DOMAIN f
    /\ Under(root, q)
    /\ \A d \in DOMAIN f :
          (Under(root, d) /\ Under(d, q) /\ d # q) =>
              f[d].kind = "dir" /\ f[d].readable

\* the walk of isGitRepo: some reached directory is named .git
WalkFindsGit(f, path) ==
    \E q \in DOMAIN f :
        /\ Reached(f, path, q)
        /\ f[q].kind = "dir"
        /\ Base(q) = GitName

\* the upward loop of isGitRepo, from curr
RECURSIVE Ascend(_, _)
Ascend(f, curr) ==
    IF Exists(f, Join(curr, GitName)) THEN TRUE
    ELSE LET parent == Dir(curr)
         IN  IF parent = curr \/ parent = Root \/ parent = <<".">>
             THEN FALSE
             ELSE Ascend(f, parent)

isGitRepo(f, path) ==
    \/ Base(path) = GitName
    \/ WalkFindsGit(f, path)
    \/ Ascend(f, path)

systemPaths ==
    << <<"", "System">>, <<"", "Library", "Apple">>, <<"", "usr", "bin">>,
       <<"", "usr", "sbin">>, <<"", "bin">>, <<"", "sbin">> >>

userDocPaths_NoDownloads ==
    << Join(Home, <<"Documents">>), Join(Home, <<"Desktop">>) >>

userDocPaths ==
    << Join(Home, <<"Documents">>), Join(Home, <<"Desktop">>),
       Join(Home, <<"Downloads">>) >>

IsHomeOrRoot(absPath) == absPath = Home \/ absPath = Root

IsSystemPath(absPath) ==
    \E i \in 1..Len(systemPaths) : HasPrefix(absPath, systemPaths[i])

IsUserDocPath(absPath) ==
    \E i \in 1..Len(userDocPaths) : absPath = userDocPaths[i]

ReasonHomeRoot == "Cannot delete home or root directory"
ReasonSIP == "Path is protected by System Integrity Protection (SIP)"
ReasonGit == "Path contains Git metadata (.git)"
ReasonUserDoc == "Path is a common user document directory"

\* an IsSafe that looks at the user document directories before Git
IsSafe_DocsFirst(f, path) ==
    LET absPath == Abs(ExpandPath(path))
    IN  IF IsHomeOrRoot(absPath) THEN [safe |-> FALSE, reason |-> ReasonHomeRoot]
        ELSE IF IsSystemPath(absPath) THEN [safe |-> FALSE, reason |-> ReasonSIP]
        ELSE IF IsUserDocPath(absPath) THEN [safe |-> FALSE, reason |-> ReasonUserDoc]
        ELSE IF isGitRepo(f, absPath) THEN [safe |-> FALSE, reason |-> ReasonGit]
        ELSE [safe |-> TRUE, reason |-> ""]

\* safety.IsSafe: [safe, reason]
IsSafe(f, path) ==
    LET absPath == Abs(ExpandPath(path))
    IN  IF IsHomeOrRoot(absPath) THEN [safe |-> FALSE, reason |-> ReasonHomeRoot]
        ELSE IF IsSystemPath(absPath) THEN [safe |-> FALSE, reason |-> ReasonSIP]
        ELSE IF isGitRepo(f, absPath) THEN [safe |-> FALSE, reason |-> ReasonGit]
        ELSE IF IsUserDocPath(absPath) THEN [safe |-> FALSE, reason |-> ReasonUserDoc]
        ELSE [safe |-> TRUE, reason |-> ""]

----------------------------------------------------------------------------
(* The scanner (internal/scanner/scanner.go, lines 1-224) *)

RiskSafe == "Safe"
RiskCaution == "Caution"
RiskManual == "Manual"

CleanupRule(name, category, paths, risk) ==
    [Name |-> name, Category |-> category, Paths |-> paths, RiskLevel |-> risk]

\* Registry.All(): built-in rules followed by the custom rules file's rules
allRules ==
    << CleanupRule("Homebrew Cache", "Package Managers",
                   << <<"~", "Library", "Caches", "Homebrew">> >>, RiskSafe),
       CleanupRule("npm Cache", "Package Managers",
                   << <<"~", ".npm", "_cacache">>, <<"~", ".npm", "_logs">> >>,
                   RiskSafe),
       CleanupRule("User Caches", "System",
                   << <<"~", "Library", "Caches">> >>, RiskCaution),
       CleanupRule("Docker System Usage", "Containers",
                   << <<"~", ".docker">> >>, RiskManual),
       CleanupRule("tmp", "Custom",
                   << <<"", "tmp", "a">>, <<"", "tmp", "b">>,
                      <<"~", "Documents">> >>, RiskManual) >>

dirsToScan ==
    << <<"~", "Downloads">>, <<"~", "Desktop">>, <<"~", "Documents">>,
       <<"~", "Movies">>, <<"~", "Pictures">> >>

DefaultLargeThreshold == 100 * 1024 * 1024

\* the simple case folding strings.EqualFold compares under
FoldTable ==
    [c \in {"", "Package Managers", "package managers", "System", "SYSTEM",
            "Containers", "Custom", "Sys"} |->
        CASE c = "Package Managers" -> "package managers"
          [] c = "System" -> "system"
          [] c = "SYSTEM" -> "system"
          [] c = "Containers" -> "containers"
          [] c = "Custom" -> "custom"
          [] c = "Sys" -> "sys"
          [] OTHER -> c]

EqualFold(a, b) == FoldTable[a] = FoldTable[b]

CategorySkips_Exact(o, rule) == o.Category # "" /\ rule.Category # o.Category

\* Scan's category filter: the rule is skipped
CategorySkips(o, rule) ==
    o.Category # "" /\ ~EqualFold(rule.Category, o.Category)

RECURSIVE SumData(_, _)
SumData(f, S) ==
    IF S = {} THEN 0
    ELSE LET q == CHOOSE q \in S : TRUE
         IN  f[q].data + SumData(f, S \ {q})

\* a dirSize that does not descend into subdirectories
dirSize_Shallow(f, path) ==
    LET p == Abs(path)
    IN  IF ~Exists(f, path) THEN [err |-> TRUE, size |-> 0]
        ELSE IF \E q \in DOMAIN f :
                   Reached(f, p, q) /\ f[q].kind = "dir" /\ ~f[q].readable
             THEN [err |-> TRUE, size |-> 0]
        ELSE [err |-> FALSE,
              size |-> SumData(f, {q \in DOMAIN f :
                                     /\ f[q].kind # "dir"
                                     /\ q = p \/ (q # Root /\ Parent(q) = p)})]

\* dirSize(path): [err, size]
dirSize(f, path) ==
    LET p == Abs(path)
        seen == {q \in DOMAIN f : Reached(f, p, q)}
    IN  IF ~Exists(f, path) THEN [err |-> TRUE, size |-> 0]
        ELSE IF \E q \in seen : f[q].kind = "dir" /\ ~f[q].readable
             THEN [err |-> TRUE, size |-> 0]
        ELSE [err |-> FALSE,
              size |-> SumData(f, {q \in seen : f[q].kind # "dir"})]

\* the excluded-paths filter of the rule loop
IsExcluded(o, expanded) ==
    \E i \in 1..Len(o.ExcludedPaths) :
        HasPrefix(expanded, ExpandPath(o.ExcludedPaths[i]))

BelowThreshold_Never(o, size) == FALSE

\* the per-path size filter of the rule loop: the path is skipped
BelowThreshold(o, size) == o.SizeThreshold > 0 /\ size < o.SizeThreshold

\* an age filter that also skips a path modified exactly at the cutoff
TooRecent_AtCutoff(f, o, expanded, t) ==
    o.OlderThan > 0 /\ t - f[Abs(expanded)].mtime <= o.OlderThan

\* the age filter of the rule loop: the path is skipped
TooRecent(f, o, expanded, t) ==
    o.OlderThan > 0 /\ t - f[Abs(expanded)].mtime < o.OlderThan

\* one iteration of the rule loop: does the pattern's path join foundPaths
PathFound(f, o, pattern, t) ==
    LET expanded == ExpandPath(pattern)
    IN  /\ ~IsExcluded(o, expanded)
        /\ Exists(f, expanded)
        /\ ~TooRecent(f, o, expanded, t)
        /\ IsSafe(f, expanded).safe
        /\ ~dirSize(f, expanded).err
        /\ ~BelowThreshold(o, dirSize(f, expanded).size)

\* a loop that gives the whole rule up when a path cannot be stat'ed or sized
RECURSIVE RuleLoop_AbortOnError(_, _, _, _, _, _, _)
RuleLoop_AbortOnError(f, o, r, i, foundPaths, ruleSize, t) ==
    IF i > Len(r.Paths) THEN [foundPaths |-> foundPaths, ruleSize |-> ruleSize]
    ELSE LET expanded == ExpandPath(r.Paths[i])
         IN  IF ~Exists(f, expanded) \/ dirSize(f, expanded).err
             THEN [foundPaths |-> <<>>, ruleSize |-> 0]
             ELSE IF PathFound(f, o, r.Paths[i], t)
             THEN RuleLoop_AbortOnError(f, o, r, i + 1,
                                        Append(foundPaths, expanded),
                                        ruleSize + dirSize(f, expanded).size, t)
             ELSE RuleLoop_AbortOnError(f, o, r, i + 1, foundPaths, ruleSize, t)

\* the worker's loop over r.Paths from the i-th pattern on
RECURSIVE RuleLoop(_, _, _, _, _, _, _)
RuleLoop(f, o, r, i, foundPaths, ruleSize, t) ==
    IF i > Len(r.Paths) THEN [foundPaths |-> foundPaths, ruleSize |-> ruleSize]
    ELSE LET expanded == ExpandPath(r.Paths[i])
         IN  IF PathFound(f, o, r.Paths[i], t)
             THEN RuleLoop(f, o, r, i + 1, Append(foundPaths, expanded),
                           ruleSize + dirSize(f, expanded).size, t)
             ELSE RuleLoop(f, o, r, i + 1, foundPaths, ruleSize, t)

\* the order in which filepath.Walk visits two different paths
RECURSIVE WalkBefore(_, _, _)
WalkBefore(p, q, i) ==
    IF i > Len(p) THEN TRUE
    ELSE IF i > Len(q) THEN FALSE
    ELSE IF p[i] = q[i] THEN WalkBefore(p, q, i + 1)
    ELSE Rank(p[i]) < Rank(q[i])

RECURSIVE WalkOrder(_)
WalkOrder(S) ==
    IF S = {} THEN <<>>
    ELSE LET q == CHOOSE q \in S : \A r \in S : WalkBefore(q, r, 1)
         IN  <<q>> \o WalkOrder(S \ {q})

\* the large-file threshold Scan uses
LargeThreshold(o) ==
    IF o.SizeThreshold = 0 THEN DefaultLargeThreshold ELSE o.SizeThreshold

\* a walk that also collects the files whose size equals the threshold
LargeFiles_AtLeast(f, o, d) ==
    {q \in DOMAIN f :
        /\ Reached(f, Abs(d), q)
        /\ f[q].kind # "dir"
        /\ f[q].data >= LargeThreshold(o)}

\* the files the large-file walk of directory d collects
LargeFiles(f, o, d) ==
    {q \in DOMAIN f :
        /\ Reached(f, Abs(d), q)
        /\ f[q].kind # "dir"
        /\ f[q].data > LargeThreshold(o)}

\* the large-file worker for directory d
LargeWalk(f, o, d) ==
    [foundPaths |-> WalkOrder(LargeFiles(f, o, d)),
     ruleSize |-> SumData(f, LargeFiles(f, o, d))]

LargeRule ==
    CleanupRule("Large Files (>100MB)", "Large Files", <<>>, RiskManual)

Result(rule, foundPaths, size) ==
    [Rule |-> rule, FoundPaths |-> foundPaths, TotalSize |-> size]

\* worker goroutines: one per rule, or one per directory in large-file mode
NumTasks(o) == IF o.LargeFileMode THEN Len(dirsToScan) ELSE Len(allRules)
Workers == 1..Len(dirsToScan)

IdleWorker == [pc |-> "none", foundPaths |-> <<>>, ruleSize |-> 0, tmp |-> 0]

NoOpts ==
    [Category |-> "", SizeThreshold |-> 0, ExcludedPaths |-> <<>>,
     OlderThan |-> 0, LargeFileMode |-> FALSE]

NoOut == [returned |-> FALSE, Results |-> <<>>, TotalSize |-> 0]

ScanIdle ==
    /\ opts = NoOpts
    /\ mainPc = "idle"
    /\ ri = 0
    /\ wk = [w \in Workers |-> IdleWorker]
    /\ results = <<>>
    /\ totalSize = 0
    /\ mu = 0
    /\ wg = 0
    /\ out = NoOut

\* Scan's loop: the category filter skips rule ri
SkipRule ==
    /\ mainPc = "spawn"
    /\ ri <= NumTasks(opts)
    /\ ~opts.LargeFileMode
    /\ CategorySkips(opts, allRules[ri])
    /\ ri' = ri + 1
    /\ UNCHANGED <<fs, now, trashVars, safeVars, opts, mainPc, wk, results,
                   totalSize, mu, wg, out, cleanVars>>

\* Scan's loop: wg.Add(1) and go func for rule or directory ri
Spawn ==
    /\ mainPc = "spawn"
    /\ ri <= NumTasks(opts)
    /\ opts.LargeFileMode \/ ~CategorySkips(opts, allRules[ri])
    /\ wg' = wg + 1
    /\ wk' = [wk EXCEPT ![ri].pc = "start"]
    /\ ri' = ri + 1
    /\ UNCHANGED <<fs, now, trashVars, safeVars, opts, mainPc, results,
                   totalSize, mu, out, cleanVars>>

\* Scan's loop ends
SpawnDone ==
    /\ mainPc = "spawn"
    /\ ri > NumTasks(opts)
    /\ mainPc' = "wait"
    /\ UNCHANGED <<fs, now, trashVars, safeVars, opts, ri, wk, results,
                   totalSize, mu, wg, out, cleanVars>>

\* a worker that appends its Result even when it found no path
WorkerEval_AlwaysAppend(w) ==
    LET r == IF opts.LargeFileMode
             THEN LargeWalk(fs, opts, ExpandPath(dirsToScan[w]))
             ELSE RuleLoop(fs, opts, allRules[w], 1, <<>>, 0, now)
    IN  /\ wk[w].pc = "start"
        /\ wk' = [wk EXCEPT ![w] = [pc |-> "lock",
                                    foundPaths |-> r.foundPaths,
                                    ruleSize |-> r.ruleSize,
                                    tmp |-> 0]]
        /\ wg' = wg
        /\ UNCHANGED <<fs, now, trashVars, safeVars, opts, mainPc, ri, results,
                       totalSize, mu, out, cleanVars>>

\* the worker's filesystem work: its loop over the rule's paths, or its walk
WorkerEval(w) ==
    LET r == IF opts.LargeFileMode
             THEN LargeWalk(fs, opts, ExpandPath(dirsToScan[w]))
             ELSE RuleLoop(fs, opts, allRules[w], 1, <<>>, 0, now)
    IN  /\ wk[w].pc = "start"
        /\ IF Len(r.foundPaths) > 0
           THEN /\ wk' = [wk EXCEPT ![w] = [pc |-> "lock",
                                            foundPaths |-> r.foundPaths,
                                            ruleSize |-> r.ruleSize,
                                            tmp |-> 0]]
                /\ wg' = wg
           ELSE /\ wk' = [wk EXCEPT ![w].pc = "done"]
                /\ wg' = wg - 1
        /\ UNCHANGED <<fs, now, trashVars, safeVars, opts, mainPc, ri, results,
                       totalSize, mu, out, cleanVars>>

CanLock_Always(w) == TRUE

\* mu.Lock() can return
CanLock(w) == mu = 0

\* a worker that goes on to its append without acquiring the mutex
WorkerLock_NoAcquire(w) ==
    /\ wk[w].pc = "lock"
    /\ mu' = mu
    /\ wk' = [wk EXCEPT ![w].pc = "append"]
    /\ UNCHANGED <<fs, now, trashVars, safeVars, opts, mainPc, ri, results,
                   totalSize, wg, out, cleanVars>>

WorkerLock(w) ==
    /\ wk[w].pc = "lock"
    /\ CanLock(w)
    /\ mu' = w
    /\ wk' = [wk EXCEPT ![w].pc = "append"]
    /\ UNCHANGED <<fs, now, trashVars, safeVars, opts, mainPc, ri, results,
                   totalSize, wg, out, cleanVars>>

\* an append that loses what the other workers appended
WorkerAppend_Overwrite(w) ==
    /\ wk[w].pc = "append"
    /\ results' = <<Result(IF opts.LargeFileMode THEN LargeRule
                           ELSE allRules[w],
                           wk[w].foundPaths, wk[w].ruleSize)>>
    /\ wk' = [wk EXCEPT ![w].pc = "read"]
    /\ UNCHANGED <<fs, now, trashVars, safeVars, opts, mainPc, ri, totalSize,
                   mu, wg, out, cleanVars>>

\* results = append(results, rules.Result{...})
WorkerAppend(w) ==
    /\ wk[w].pc = "append"
    /\ results' = Append(results,
                         Result(IF opts.LargeFileMode THEN LargeRule
                                ELSE allRules[w],
                                wk[w].foundPaths, wk[w].ruleSize))
    /\ wk' = [wk EXCEPT ![w].pc = "read"]
    /\ UNCHANGED <<fs, now, trashVars, safeVars, opts, mainPc, ri, totalSize,
                   mu, wg, out, cleanVars>>

\* totalSize += ruleSize: the load
WorkerRead(w) ==
    /\ wk[w].pc = "read"
    /\ wk' = [wk EXCEPT ![w].pc = "write", ![w].tmp = totalSize]
    /\ UNCHANGED <<fs, now, trashVars, safeVars, opts, mainPc, ri, results,
                   totalSize, mu, wg, out, cleanVars>>

\* totalSize += ruleSize: the store
WorkerWrite(w) ==
    /\ wk[w].pc = "write"
    /\ totalSize' = wk[w].tmp + wk[w].ruleSize
    /\ wk' = [wk EXCEPT ![w].pc = "unlock"]
    /\ UNCHANGED <<fs, now, trashVars, safeVars, opts, mainPc, ri, results,
                   mu, wg, out, cleanVars>>

\* mu.Unlock() and the deferred wg.Done()
WorkerUnlock(w) ==
    /\ wk[w].pc = "unlock"
    /\ mu' = IF mu = w THEN 0 ELSE mu
    /\ wg' = wg - 1
    /\ wk' = [wk EXCEPT ![w].pc = "done"]
    /\ UNCHANGED <<fs, now, trashVars, safeVars, opts, mainPc, ri, results,
                   totalSize, out, cleanVars>>

\* a Scan that returns without waiting for its workers
ScanReturn_NoWait ==
    /\ mainPc = "wait"
    /\ mainPc' = "done"
    /\ out' = [returned |-> TRUE, Results |-> results, TotalSize |-> totalSize]
    /\ UNCHANGED <<fs, now, trashVars, safeVars, opts, ri, wk, results,
                   totalSize, mu, wg, cleanVars>>

\* wg.Wait() returns and Scan returns its ScanResults
ScanReturn ==
    /\ mainPc = "wait"
    /\ wg = 0
    /\ mainPc' = "done"
    /\ out' = [returned |-> TRUE, Results |-> results, TotalSize |-> totalSize]
    /\ UNCHANGED <<fs, now, trashVars, safeVars, opts, ri, wk, results,
                   totalSize, mu, wg, cleanVars>>

----------------------------------------------------------------------------
(* The trash/undo subsystem (internal/cleaner/trash.go) *)

\* NewTrashManager: TrashBaseDir
TrashBaseDir == Join(Join(Home, <<".burrow">>), <<"trash">>)

\* time.Now().Format("20060102_150405"), for the seconds of the model
FormatTable ==
    << "20260101_000001", "20260101_000002", "20260101_000003",
       "20260101_000004", "20260101_000005", "20260101_000006" >>

Format(t) == <<FormatTable[t]>>

ManifestName == <<"manifest.json">>

TrashEntry(path, trashPath) == [original_path |-> path, trash_path |-> trashPath]

\* json.MarshalIndent(manifest): the manifest file's content
ManifestNode(t, entries) ==
    [kind |-> "file", data |-> 1, mtime |-> t, readable |-> TRUE,
     json |-> [ok |-> TRUE, timestamp |-> t, entries |-> entries]]

\* the trash path MoveToTrash picks for a path
TrashPathOf(sessionDir, path) == Join(sessionDir, Base(path))

\* a loop that goes on to the next path when a rename fails
RECURSIVE MoveLoop_SkipFailed(_, _, _, _, _, _, _)
MoveLoop_SkipFailed(f, sessionDir, paths, i, entries, failAt, t) ==
    IF i > Len(paths)
    THEN [err |-> Len(entries) < Len(paths), fs |-> f, entries |-> entries]
    ELSE LET path == paths[i]
             trashPath == TrashPathOf(sessionDir, path)
             r == IF i = failAt THEN [ok |-> FALSE, fs |-> f]
                  ELSE Rename(f, path, trashPath, t)
         IN  IF ~r.ok
             THEN MoveLoop_SkipFailed(f, sessionDir, paths, i + 1, entries,
                                      failAt, t)
             ELSE MoveLoop_SkipFailed(r.fs, sessionDir, paths, i + 1,
                                      Append(entries, TrashEntry(path, trashPath)),
                                      failAt, t)

\* the loop of MoveToTrash from the i-th path on; failAt is the index of a
\* rename that the operating system refuses (cross-device, permission), 0 if none
RECURSIVE MoveLoop(_, _, _, _, _, _, _)
MoveLoop(f, sessionDir, paths, i, entries, failAt, t) ==
    IF i > Len(paths) THEN [err |-> FALSE, fs |-> f, entries |-> entries]
    ELSE LET path == paths[i]
             trashPath == TrashPathOf(sessionDir, path)
             r == IF i = failAt THEN [ok |-> FALSE, fs |-> f]
                  ELSE Rename(f, path, trashPath, t)
         IN  IF ~r.ok THEN [err |-> TRUE, fs |-> f, entries |-> entries]
             ELSE MoveLoop(r.fs, sessionDir, paths, i + 1,
                           Append(entries, TrashEntry(path, trashPath)),
                           failAt, t)

\* TrashManager.MoveToTrash: [err, session, fs, entries]
MoveToTrashRes(f, paths, failAt, t) ==
    LET timestamp == Format(t)
        sessionDir == Join(TrashBaseDir, timestamp)
        mk == MkdirAll(f, sessionDir, t)
        lp == MoveLoop(mk.fs, sessionDir, paths, 1, <<>>, failAt, t)
        wr == WriteFile(lp.fs, Join(sessionDir, ManifestName),
                        ManifestNode(t, lp.entries), t)
    IN  IF ~mk.ok THEN [err |-> TRUE, session |-> "", fs |-> f, entries |-> <<>>]
        ELSE IF lp.err
             THEN [err |-> TRUE, session |-> "", fs |-> lp.fs, entries |-> lp.entries]
        ELSE IF ~wr.ok
             THEN [err |-> TRUE, session |-> "", fs |-> lp.fs, entries |-> lp.entries]
        ELSE [err |-> FALSE, session |-> timestamp[1], fs |-> wr.fs,
              entries |-> lp.entries]

\* the session RestoreLast picks: the greatest directory name, "" if none
SessionDirs(f) == {q \in Children(f, TrashBaseDir) : f[q].kind = "dir"}

\* a RestoreLast that picks the oldest session
Latest_Oldest(f) ==
    IF SessionDirs(f) = {} THEN ""
    ELSE LET q == CHOOSE q \in SessionDirs(f) :
                    \A r \in SessionDirs(f) : Rank(q[Len(q)]) <= Rank(r[Len(r)])
         IN  q[Len(q)]

Latest(f) ==
    IF SessionDirs(f) = {} THEN ""
    ELSE LET q == CHOOSE q \in SessionDirs(f) :
                    \A r \in SessionDirs(f) : Rank(r[Len(r)]) <= Rank(q[Len(q)])
         IN  q[Len(q)]

\* a restore loop that gives up at the first entry it cannot restore
RECURSIVE RestoreLoop_StopAtFailure(_, _, _, _)
RestoreLoop_StopAtFailure(f, entries, i, t) ==
    IF i > Len(entries) THEN f
    ELSE LET entry == entries[i]
             mk == MkdirAll(f, Dir(entry.original_path), t)
             r == Rename(mk.fs, entry.trash_path, entry.original_path, t)
         IN  IF ~mk.ok THEN f
             ELSE IF ~r.ok THEN mk.fs
             ELSE RestoreLoop_StopAtFailure(r.fs, entries, i + 1, t)

\* the restore loop of RestoreLast from the i-th manifest entry on
RECURSIVE RestoreLoop(_, _, _, _)
RestoreLoop(f, entries, i, t) ==
    IF i > Len(entries) THEN f
    ELSE LET entry == entries[i]
             mk == MkdirAll(f, Dir(entry.original_path), t)
             r == Rename(mk.fs, entry.trash_path, entry.original_path, t)
         IN  IF ~mk.ok THEN RestoreLoop(f, entries, i + 1, t)
             ELSE RestoreLoop(r.fs, entries, i + 1, t)

\* a manifest reader that takes a missing or unparsable manifest for an empty one
ReadManifest_Lenient(f, manifestPath) ==
    IF ~Exists(f, manifestPath) \/ IsDir(f, manifestPath)
    THEN [err |-> FALSE, entries |-> <<>>]
    ELSE [err |-> FALSE, entries |-> f[manifestPath].json.entries]

\* os.ReadFile and json.Unmarshal of the manifest: [err, entries]
ReadManifest(f, manifestPath) ==
    IF ~Exists(f, manifestPath) \/ IsDir(f, manifestPath)
    THEN [err |-> TRUE, entries |-> <<>>]
    ELSE IF ~f[manifestPath].json.ok THEN [err |-> TRUE, entries |-> <<>>]
    ELSE [err |-> FALSE, entries |-> f[manifestPath].json.entries]

\* a RestoreLast that tidies the trash root away when it finds no session in it
RestoreLastRes_Tidy(f, t) ==
    LET latest == Latest(f)
        sessionDir == Join(TrashBaseDir, <<latest>>)
        manifest == ReadManifest(f, Join(sessionDir, ManifestName))
    IN  IF ~ReadDirOK(f, TrashBaseDir) THEN [err |-> TRUE, fs |-> f]
        ELSE IF latest = ""
             THEN [err |-> TRUE, fs |-> RemoveAll(f, TrashBaseDir, t)]
        ELSE IF manifest.err THEN [err |-> TRUE, fs |-> f]
        ELSE [err |-> FALSE,
              fs |-> RemoveAll(RestoreLoop(f, manifest.entries, 1, t),
                               sessionDir, t)]

\* TrashManager.RestoreLast: [err, fs]
RestoreLastRes(f, t) ==
    LET latest == Latest(f)
        sessionDir == Join(TrashBaseDir, <<latest>>)
        manifest == ReadManifest(f, Join(sessionDir, ManifestName))
    IN  IF ~ReadDirOK(f, TrashBaseDir) THEN [err |-> TRUE, fs |-> f]
        ELSE IF Children(f, TrashBaseDir) = {} THEN [err |-> TRUE, fs |-> f]
        ELSE IF latest = "" THEN [err |-> TRUE, fs |-> f]
        ELSE IF manifest.err THEN [err |-> TRUE, fs |-> f]
        ELSE [err |-> FALSE,
              fs |-> RemoveAll(RestoreLoop(f, manifest.entries, 1, t),
                               sessionDir, t)]

----------------------------------------------------------------------------
(* The history (internal/history/history.go) *)

\* NewManager: historyPath
HistoryPath == Join(Join(Home, <<".burrow">>), <<"history.json">>)

\* the number of entries Save keeps
HistoryCap == 50

\* history.Entry
Entry(id, timestamp, bytes, count, stats) ==
    [ID |-> id, Timestamp |-> timestamp, ReclaimedBytes |-> bytes,
     FileCount |-> count, CategoryStats |-> stats]

\* json.MarshalIndent(entries): the history file's content
HistoryNode(t, entries) ==
    [kind |-> "file", data |-> 1, mtime |-> t, readable |-> TRUE,
     json |-> [ok |-> TRUE, timestamp |-> 0, entries |-> entries]]

\* sort.Slice(entries, Timestamp.After): newest first
RECURSIVE NewestFirst(_)
NewestFirst(es) ==
    IF es = <<>> THEN <<>>
    ELSE LET i == CHOOSE i \in 1..Len(es) :
                    \A j \in 1..Len(es) : es[j].Timestamp <= es[i].Timestamp
         IN  <<es[i]>> \o
             NewestFirst(SubSeq(es, 1, i - 1) \o SubSeq(es, i + 1, Len(es)))

\* Manager.Load: [err, entries]
Load(f) ==
    IF ~Exists(f, HistoryPath) THEN [err |-> FALSE, entries |-> <<>>]
    ELSE IF IsDir(f, HistoryPath) \/ ~f[HistoryPath].json.ok
         THEN [err |-> TRUE, entries |-> <<>>]
    ELSE [err |-> FALSE, entries |-> NewestFirst(f[HistoryPath].json.entries)]

\* a Save that writes nothing
Save_Nothing(f, entry, t) == f

\* Manager.Save: the filesystem it leaves (Clean drops its error)
Save(f, entry, t) ==
    LET appended == Append(Load(f).entries, entry)
        kept == IF Len(appended) > HistoryCap
                THEN SubSeq(appended, Len(appended) - HistoryCap + 1,
                            Len(appended))
                ELSE appended
        mk == MkdirAll(f, Dir(HistoryPath), t)
        wr == WriteFile(mk.fs, HistoryPath, HistoryNode(t, kept), t)
    IN  IF ~mk.ok THEN f ELSE wr.fs

----------------------------------------------------------------------------
(* The cleaner (internal/cleaner/cleaner.go) and the configuration *)

\* config.Config, and the empty configuration Load returns without a file
Config(disabled, excluded, mb) ==
    [DisabledCategories |-> disabled, ExcludedPaths |-> excluded,
     SizeThresholdMB |-> mb]

NoConfig == Config(<<>>, <<>>, 0)

DryRunSession == "DRY-RUN"

\* categoryStats[c] += n
AddStat(stats, c, n) ==
    IF c \in DOMAIN stats THEN [stats EXCEPT ![c] = @ + n]
    ELSE stats @@ (c :> n)

NoTotals == [totalSpace |-> 0, totalPaths |-> <<>>, categoryStats |-> <<>>]

\* Clean's loop over the results from the i-th on
RECURSIVE CleanTotals(_, _, _)
CleanTotals(rs, i, acc) ==
    IF i > Len(rs) THEN acc
    ELSE CleanTotals(rs, i + 1,
             [totalSpace |-> acc.totalSpace + rs[i].TotalSize,
              totalPaths |-> acc.totalPaths \o rs[i].FoundPaths,
              categoryStats |-> AddStat(acc.categoryStats, rs[i].Rule.Category,
                                        rs[i].TotalSize)])

\* CleanResult, with nil for the result Clean returns with an error
CleanResult(space, count, session) ==
    [nil |-> FALSE, ReclaimedSpace |-> space, FileCount |-> count,
     TrashSession |-> session]

NilResult ==
    [nil |-> TRUE, ReclaimedSpace |-> 0, FileCount |-> 0, TrashSession |-> ""]

\* Cleaner.Clean from its dry-run test on, given the totals tot of its first
\* loop and the outcome mv of MoveToTrash (looked at only when not dry-run)
CleanAfterMove(f, tot, mv, dryRun, t) ==
    IF dryRun
    THEN [err |-> FALSE,
          res |-> CleanResult(tot.totalSpace, Len(tot.totalPaths),
                              DryRunSession),
          moved |-> FALSE, mv |-> mv, paths |-> <<>>, fs |-> f]
    ELSE IF mv.err
    THEN [err |-> TRUE, res |-> NilResult, moved |-> TRUE, mv |-> mv,
          paths |-> tot.totalPaths, fs |-> mv.fs]
    ELSE [err |-> FALSE,
          res |-> CleanResult(tot.totalSpace, Len(tot.totalPaths),
                              mv.session),
          moved |-> TRUE, mv |-> mv, paths |-> tot.totalPaths,
          fs |-> Save(mv.fs,
                      Entry(mv.session, t, tot.totalSpace,
                            Len(tot.totalPaths), tot.categoryStats), t)]

\* a Clean that does not look at dryRun
CleanRes_NoDryRun(f, rs, dryRun, t) ==
    CleanAfterMove(f, CleanTotals(rs, 1, NoTotals),
                   MoveToTrashRes(f, CleanTotals(rs, 1, NoTotals).totalPaths,
                                  0, t),
                   FALSE, t)

\* Cleaner.Clean: [err, res, moved, mv, paths, fs]; moved tells whether
\* MoveToTrash was called, paths is what it was given and mv what it returned
CleanRes(f, rs, dryRun, t) ==
    CleanAfterMove(f, CleanTotals(rs, 1, NoTotals),
                   MoveToTrashRes(f, CleanTotals(rs, 1, NoTotals).totalPaths,
                                  0, t),
                   dryRun, t)

NoClean == [op |-> "none", dryRun |-> FALSE, err |-> FALSE, res |-> NilResult]

CleanIdle ==
    /\ cfg = NoConfig
    /\ cin = <<>>
    /\ cres = NoClean
    /\ cpre = fs

----------------------------------------------------------------------------
(* Trash specification: MoveToTrash and RestoreLast calls over time *)

MaxPaths == 3

\* the paths handed to MoveToTrash
TrashArgs ==
    { <<"", "tmp", "a", "x">>, <<"", "tmp", "b", "x">>, <<"", "tmp", "a">> }

\* the lists of at most MaxPaths different paths
PathLists ==
    UNION { {l \in [1..n -> TrashArgs] : \A i, j \in 1..n : l[i] = l[j] => i = j} :
            n \in 0..MaxPaths }

FsUser ==
    (Root :> DirNode(0)) @@
    (<<"", "tmp">> :> DirNode(0)) @@
    (<<"", "tmp", "a">> :> DirNode(0)) @@
    (<<"", "tmp", "a", "x">> :> FileNode(1, 0)) @@
    (<<"", "tmp", "b">> :> DirNode(0)) @@
    (<<"", "tmp", "b", "x">> :> FileNode(2, 0)) @@
    (<<"", "Users">> :> DirNode(0)) @@
    (Home :> DirNode(0))

FsUserTrash ==
    FsUser @@
    (Join(Home, <<".burrow">>) :> DirNode(0)) @@
    (TrashBaseDir :> DirNode(0))

TrashFsCases == {FsUser, FsUserTrash}

NoVerdict == [safe |-> FALSE, reason |-> "none"]

NoRet == [op |-> "none", err |-> FALSE, session |-> "", prev |-> "none"]

\* what a call is recorded as in the next call's ret.prev
Outcome(r) == IF r.op = "move" /\ ~r.err THEN "move-ok" ELSE r.op

InitTrash ==
    /\ fs \in TrashFsCases
    /\ now = 1
    /\ ret = NoRet
    /\ args = <<>>
    /\ moved = <<>>
    /\ pre = fs
    /\ calls = 0
    /\ before = fs
    /\ probe = <<>>
    /\ verdict = NoVerdict
    /\ ScanIdle
    /\ CleanIdle

MoveToTrash(paths, failAt) ==
    LET r == MoveToTrashRes(fs, paths, failAt, now)
    IN  /\ fs' = r.fs
        /\ ret' = [op |-> "move", err |-> r.err, session |-> r.session,
                   prev |-> Outcome(ret)]
        /\ args' = paths
        /\ moved' = r.entries
        /\ pre' = fs
        /\ calls' = calls + 1
        /\ UNCHANGED <<now, before, safeVars, scanVars, cleanVars>>

RestoreLast ==
    LET r == RestoreLastRes(fs, now)
    IN  /\ fs' = r.fs
        /\ ret' = [op |-> "restore", err |-> r.err,
                   session |-> IF r.err THEN "" ELSE Latest(fs),
                   prev |-> Outcome(ret)]
        /\ before' = fs
        /\ UNCHANGED <<now, args, moved, pre, calls, safeVars, scanVars,
                       cleanVars>>

\* a second passes
Tick ==
    /\ now < MaxTime
    /\ now' = now + 1
    /\ UNCHANGED <<fs, trashVars, safeVars, scanVars, cleanVars>>

NextTrash ==
    \/ \E paths \in PathLists : \E failAt \in 0..Len(paths) :
          calls < MaxCalls /\ MoveToTrash(paths, failAt)
    \/ RestoreLast
    \/ Tick

SpecTrash == InitTrash /\ [][NextTrash]_vars

----------------------------------------------------------------------------
(* Properties of the trash/undo subsystem *)

\* the subtree at p holds in f what it held in g (kinds and contents)
SameTree(f, g, p) ==
    /\ p \in DOMAIN g
    /\ \A q \in DOMAIN g :
          Under(p, q) =>
             /\ q \in DOMAIN f
             /\ f[q].kind = g[q].kind
             /\ f[q].data = g[q].data
    /\ \A q \in DOMAIN f : Under(p, q) => q \in DOMAIN g

\* C1: a successful MoveToTrash(P) directly followed by RestoreLast puts every
\* path of P back at its original location with the content it had, and the
\* session directory is gone.
C1_RoundTrip ==
    (ret.op = "restore" /\ ~ret.err /\ ret.prev = "move-ok") =>
        /\ \A i \in 1..Len(args) : SameTree(fs, pre, Abs(args[i]))
        /\ Join(TrashBaseDir, <<ret.session>>) \notin DOMAIN fs

\* some number k of RestoreLast calls brings the subtree at p back to what it
\* was before the last MoveToTrash
RECURSIVE CanRestore(_, _, _, _)
CanRestore(f, p, k, t) ==
    \/ SameTree(f, pre, p)
    \/ /\ k > 0
       /\ ~RestoreLastRes(f, t).err
       /\ CanRestore(RestoreLastRes(f, t).fs, p, k - 1, t)

\* C2: after any MoveToTrash call, failed or not, every path the call moved
\* can be brought back to its original location by calls to RestoreLast.
C2_Undoable ==
    ret.op = "move" =>
        \A i \in 1..Len(moved) :
            CanRestore(fs, Abs(moved[i].original_path),
                       Cardinality(SessionDirs(fs)), now)

\* the tree at p is in f exactly what it was in g, absent if it was absent
Untouched(f, g, p) ==
    \A q \in (DOMAIN f) \cup (DOMAIN g) :
        Under(p, q) =>
            /\ q \in DOMAIN f
            /\ q \in DOMAIN g
            /\ f[q].kind = g[q].kind
            /\ f[q].data = g[q].data

\* the paths the last MoveToTrash renamed are the first paths of its list,
\* they are gone from their original locations and something lies at their
\* trash paths in one session directory
MovedPrefix ==
    /\ Len(moved) <= Len(args)
    /\ \A i \in 1..Len(moved) :
          /\ moved[i].original_path = args[i]
          /\ Abs(args[i]) \notin DOMAIN fs
          /\ moved[i].trash_path \in DOMAIN fs
          /\ Parent(moved[i].trash_path) \in SessionDirs(fs)
          /\ Parent(moved[i].trash_path) = Parent(moved[1].trash_path)

\* C12 as claimed: when the k-th rename fails the call returns an error and no
\* session identifier, the paths before k are in the session directory, and
\* every path after k is untouched at its original location.
C12_AbortAtFailure ==
    (ret.op = "move" /\ ret.err) =>
        /\ ret.session = ""
        /\ MovedPrefix
        /\ \A i \in (Len(moved) + 2)..Len(args) :
              Untouched(fs, pre, Abs(args[i]))

\* C12 amended: when the k-th rename fails the call returns an error and no
\* session identifier, the paths before k have left their original locations
\* for the session directory and are not moved back, and no path after k is
\* processed: it is untouched at its original location unless it lies inside,
\* or contains, a path that was moved before the failure.
C12_AbortNoRollback ==
    (ret.op = "move" /\ ret.err) =>
        /\ ret.session = ""
        /\ MovedPrefix
        /\ \A i \in (Len(moved) + 2)..Len(args) :
              \/ \E j \in 1..Len(moved) :
                    \/ Under(Abs(args[j]), Abs(args[i]))
                    \/ Under(Abs(args[i]), Abs(args[j]))
              \/ Untouched(fs, pre, Abs(args[i]))

C12_Witness ==
    /\ ret.op = "move"
    /\ ret.err
    /\ Len(moved) = 1
    /\ Len(args) = 3
    /\ Abs(args[1]) \notin DOMAIN fs
    /\ moved[1].trash_path \in DOMAIN fs
    /\ Abs(args[3]) \in DOMAIN fs
    /\ Untouched(fs, pre, Abs(args[3]))

\* the item at the i-th renamed path's trash path is the one that lay at its
\* original path when MoveToTrash was called
HoldsMoved(i) ==
    /\ moved[i].trash_path \in DOMAIN fs
    /\ fs[moved[i].trash_path].kind = pre[Abs(moved[i].original_path)].kind
    /\ fs[moved[i].trash_path].data = pre[Abs(moved[i].original_path)].data

\* the entries of the manifest in session directory s, <<>> if it has none
EntriesOf(f, s) == ReadManifest(f, Join(s, ManifestName)).entries

\* C14: every trash path recorded in the manifest of an existing session
\* directory exists on disk, and after a successful MoveToTrash it holds the
\* item that was moved from the recorded original path.
C14_ManifestHolds ==
    /\ \A s \in SessionDirs(fs) : \A i \in 1..Len(EntriesOf(fs, s)) :
           EntriesOf(fs, s)[i].trash_path \in DOMAIN fs
    /\ (ret.op = "move" /\ ~ret.err) =>
           \A i \in 1..Len(moved) : HoldsMoved(i)

\* C15: when MoveToTrash succeeds on a list with two different paths of the
\* same basename, the two have different trash paths.
C15_CollisionsHandled ==
    (ret.op = "move" /\ ~ret.err) =>
        \A i, j \in 1..Len(moved) :
            (i # j /\ Base(args[i]) = Base(args[j])) =>
                moved[i].trash_path # moved[j].trash_path

\* C16: after a successful MoveToTrash(P) no path of P is at its original
\* location, the manifest in the session directory has one entry per path of
\* P, in order, from the original path to a path in the session directory,
\* and that path holds the moved item with its content.
C16_MoveEffect ==
    (ret.op = "move" /\ ~ret.err) =>
        LET sessionDir == Join(TrashBaseDir, <<ret.session>>)
        IN  /\ \A i \in 1..Len(args) : Abs(args[i]) \notin DOMAIN fs
            /\ EntriesOf(fs, sessionDir) = moved
            /\ Len(moved) = Len(args)
            /\ \A i \in 1..Len(moved) :
                  /\ moved[i].original_path = args[i]
                  /\ Parent(moved[i].trash_path) = sessionDir
                  /\ HoldsMoved(i)

----------------------------------------------------------------------------
(* Undo specification: MoveToTrash and RestoreLast calls on a filesystem    *)
(* that the user and other programs also change                             *)

\* a trash root that holds one stray file and no session
FsUserStray == FsUserTrash @@ (Join(TrashBaseDir, <<"x">>) :> FileNode(3, 0))

UndoFsCases == {FsUser, FsUserStray}

\* the paths handed to MoveToTrash here, and the lists of them
UndoArgs == { <<"", "tmp", "a">>, <<"", "tmp", "b", "x">> }

UndoLists ==
    {l \in PathLists : l # <<>> /\ \A i \in 1..Len(l) : l[i] \in UndoArgs}

\* the directories another program recreates when it misses them
RecreatedDirs == { <<"", "tmp", "a">> }

InitUndo ==
    /\ fs \in UndoFsCases
    /\ now = 1
    /\ ret = NoRet
    /\ args = <<>>
    /\ moved = <<>>
    /\ pre = fs
    /\ calls = 0
    /\ before = fs
    /\ probe = <<>>
    /\ verdict = NoVerdict
    /\ ScanIdle
    /\ CleanIdle

\* the record of a step that is no call of the trash manager
UserStep == [op |-> "user", err |-> FALSE, session |-> "", prev |-> "none"]

\* another program recreates its directory d
UserMkdir(d) ==
    /\ d \notin DOMAIN fs
    /\ fs' = MkdirAll(fs, d, now).fs
    /\ ret' = UserStep
    /\ UNCHANGED <<now, args, moved, pre, calls, before, safeVars, scanVars,
                   cleanVars>>

\* the manifest of session directory s is overwritten with something that is
\* no JSON document
ManifestDamaged(s) ==
    /\ Join(s, ManifestName) \in DOMAIN fs
    /\ fs[Join(s, ManifestName)].json.ok
    /\ fs' = [fs EXCEPT ![Join(s, ManifestName)].json = NoJSON]
    /\ ret' = UserStep
    /\ UNCHANGED <<now, args, moved, pre, calls, before, safeVars, scanVars,
                   cleanVars>>

NextUndo ==
    \/ \E paths \in UndoLists : \E failAt \in 0..Len(paths) :
          calls < MaxCalls /\ MoveToTrash(paths, failAt)
    \/ RestoreLast
    \/ Tick
    \/ \E d \in RecreatedDirs : UserMkdir(d)
    \/ \E s \in SessionDirs(fs) : ManifestDamaged(s)

SpecUndo == InitUndo /\ [][NextUndo]_vars

----------------------------------------------------------------------------
(* Properties of undo *)

\* C11: RestoreLast called when the trash root is missing, empty or holds no
\* directory returns an error and leaves the whole filesystem, the trash root
\* included, as it was.
C11_NoSession ==
    (ret.op = "restore" /\ SessionDirs(before) = {}) =>
        /\ ret.err
        /\ fs = before

C11_Witness ==
    /\ ret.op = "restore"
    /\ ret.err
    /\ fs = before
    /\ SessionDirs(fs) = {}
    /\ Children(fs, TrashBaseDir) # {}

\* the session the last RestoreLast picked, and what its manifest read as
UndoneDir == Join(TrashBaseDir, <<Latest(before)>>)
UndoneManifest == ReadManifest(before, Join(UndoneDir, ManifestName))

\* the last RestoreLast found a session and could read and parse its manifest
ManifestParsed ==
    /\ ret.op = "restore"
    /\ SessionDirs(before) # {}
    /\ ~UndoneManifest.err

\* no earlier entry of the manifest shares entry i's trash path or names an
\* original path inside or around entry i's
Independent(es, i) ==
    \A j \in 1..(i - 1) :
        /\ es[j].trash_path # es[i].trash_path
        /\ ~Under(Abs(es[j].original_path), Abs(es[i].original_path))
        /\ ~Under(Abs(es[i].original_path), Abs(es[j].original_path))

\* entry e's restore could not succeed: its original location was occupied by
\* a directory
Blocked(e) ==
    /\ e.trash_path \in DOMAIN before
    /\ IsDir(before, e.original_path)

\* entry e was restored: its original location was free and now holds what
\* lay at its trash path
Restored(e) ==
    /\ Abs(e.original_path) \in DOMAIN fs
    /\ fs[Abs(e.original_path)].kind = before[e.trash_path].kind
    /\ fs[Abs(e.original_path)].data = before[e.trash_path].data

NoUsableManifest(f, d) ==
    \/ Join(d, ManifestName) \notin DOMAIN f
    \/ f[Join(d, ManifestName)].kind # "file"
    \/ ~f[Join(d, ManifestName)].json.ok

\* C19: when the manifest of the most recent session is absent or cannot be
\* parsed, RestoreLast returns an error and leaves the filesystem as it was:
\* nothing is restored and the session directory keeps all its files.
C19_BadManifest ==
    (/\ ret.op = "restore"
     /\ SessionDirs(before) # {}
     /\ NoUsableManifest(before, UndoneDir)) =>
        /\ ret.err
        /\ fs = before

C19_Witness ==
    /\ ret.op = "restore"
    /\ ret.err
    /\ fs = before
    /\ Join(UndoneDir, ManifestName) \in DOMAIN fs
    /\ ~fs[Join(UndoneDir, ManifestName)].json.ok
    /\ Cardinality(Children(fs, UndoneDir)) = 3

C19_WitnessAbsent ==
    /\ ret.op = "restore"
    /\ ret.err
    /\ fs = before
    /\ UndoneDir \in DOMAIN fs
    /\ Join(UndoneDir, ManifestName) \notin DOMAIN fs
    /\ Cardinality(Children(fs, UndoneDir)) = 1

----------------------------------------------------------------------------
(* Safety specification: IsSafe called on a filesystem in which Git         *)
(* repositories appear and directories become unreadable                    *)

HomeDir(name) == Join(Home, <<name>>)
CachesDir == Join(Home, <<"Library", "Caches">>)

FsSafe ==
    [p \in { Root, <<"", "Users">>, Home,
             HomeDir("Documents"), HomeDir("Desktop"), HomeDir("Downloads"),
             HomeDir("Library"), CachesDir, Join(CachesDir, <<"Homebrew">>),
             <<"", "System">>, <<"", "System", "Library">>,
             <<"", "Library">>, <<"", "Library", "Apple">>,
             <<"", "usr">>, <<"", "usr", "bin">>, <<"", "bin">>,
             <<"", "binaries">>, <<"", "binaries", "cache">>,
             <<"", "System-old">>, <<"", "System-old", "x">>,
             <<"", "tmp">>, <<"", "tmp", "a">>, <<"", "tmp", "a", "b">>,
             <<"", "work">> } |-> DirNode(0)]
    @@ (<<"", "tmp", "a", "b", "x">> :> FileNode(1, 0))

\* the directories in which a .git directory may appear
GitDirs ==
    { Root, Home, HomeDir("Documents"), <<"", "tmp">>, <<"", "tmp", "a">>,
      <<"", "tmp", "a", "b">>, Join(CachesDir, <<"Homebrew">>) }

\* the directories that may lose their read permission
ChmodDirs == { <<"", "tmp", "a">> }

\* the path strings handed to IsSafe
HomeForms == { Home, <<"~", "">>, Home \o <<"">> }
RootForms == { Root }
SystemForms ==
    { <<"", "System">>, <<"", "System", "Library">>, <<"", "System", "">>,
      <<"", "Library", "Apple">>, <<"", "Library", "Apple", "x">>,
      <<"", "usr", "bin">>, <<"", "usr", "bin", "x">>,
      <<"", "usr", "sbin">>, <<"", "bin">>, <<"", "bin", "x">>,
      <<"", "sbin">>, <<"", "sbin", "x">> }
UserDocForms ==
    { HomeDir("Documents"), HomeDir("Desktop"), HomeDir("Downloads"),
      <<"~", "Documents">>, <<"~", "Desktop">>, <<"~", "Downloads">>,
      HomeDir("Downloads") \o <<"">> }
OtherForms ==
    { <<"~">>, <<"", "binaries", "cache">>, <<"", "System-old", "x">>,
      CachesDir, Join(CachesDir, <<"Homebrew">>), <<"~", "Library", "Caches">>,
      <<"", "tmp">>, <<"", "tmp", "a">>, <<"", "tmp", "a", "b">>,
      <<"", "tmp", "a", "b", "x">>, <<"", "tmp", "y">>,
      <<"", "tmp", "a", ".git">>, HomeDir("Documents") \o <<"x">>,
      <<"", "Library">>, <<"", "usr">> }

ProbePaths == HomeForms \cup RootForms \cup SystemForms \cup UserDocForms \cup OtherForms

GitCount(f) == Cardinality({q \in DOMAIN f : Base(q) = GitName})

InitSafe ==
    /\ fs = FsSafe
    /\ now = 1
    /\ ret = NoRet
    /\ args = <<>>
    /\ moved = <<>>
    /\ pre = fs
    /\ calls = 0
    /\ before = fs
    /\ probe = <<>>
    /\ verdict = NoVerdict
    /\ ScanIdle
    /\ CleanIdle

\* a caller asks the validator about a path
CallIsSafe(path) ==
    /\ probe' = path
    /\ verdict' = IsSafe(fs, path)
    /\ UNCHANGED <<fs, now, trashVars, scanVars, cleanVars>>

\* someone runs "git init" in directory d
GitInit(d) ==
    /\ GitCount(fs) < MaxGit
    /\ d \in DOMAIN fs
    /\ Join(d, GitName) \notin DOMAIN fs
    /\ fs' = MkdirAll(fs, Join(d, GitName), now).fs
    /\ probe' = <<>>
    /\ verdict' = NoVerdict
    /\ UNCHANGED <<now, trashVars, scanVars, cleanVars>>

\* directory d loses or regains its read permission
Chmod(d) ==
    /\ d \in DOMAIN fs
    /\ fs' = [fs EXCEPT ![d].readable = ~fs[d].readable]
    /\ probe' = <<>>
    /\ verdict' = NoVerdict
    /\ UNCHANGED <<now, trashVars, scanVars, cleanVars>>

NextSafe ==
    \/ \E path \in ProbePaths : CallIsSafe(path)
    \/ \E d \in GitDirs : GitInit(d)
    \/ \E d \in ChmodDirs : Chmod(d)

SpecSafe == InitSafe /\ [][NextSafe]_vars

----------------------------------------------------------------------------
(* Properties of the safety validator *)

\* C5: IsSafe denies the home directory, the filesystem root, every path under
\* a protected system prefix and the directories ~/Documents, ~/Desktop and
\* ~/Downloads, whatever else the filesystem contains.
C5_ProtectedDenied ==
    probe \in (HomeForms \cup RootForms \cup SystemForms \cup UserDocForms) =>
        ~verdict.safe

C5_Witness ==
    /\ probe = HomeDir("Downloads")
    /\ verdict = [safe |-> FALSE, reason |-> ReasonUserDoc]
    /\ GitCount(fs) > 0

\* the clean absolute path a probe string of the model denotes
Denoted(s) ==
    IF s = <<>> THEN Root
    ELSE IF s[1] = "~" /\ Len(s) >= 2 THEN Clean(Home \o Tail(s))
    ELSE IF s[1] = "" THEN Clean(s)
    ELSE Clean(Cwd \o s)

\* p is named .git, has a .git directory somewhere below it, or lies in a
\* tree one of whose ancestor directories (up to the root) contains .git
GitRelated(f, p) ==
    \/ p[Len(p)] = ".git"
    \/ \E q \in DOMAIN f :
          Under(p, q) /\ q # p /\ q[Len(q)] = ".git" /\ f[q].kind = "dir"
    \/ \E a \in Chain(p) \cup {Root} : Clean(a \o GitName) \in DOMAIN f

\* C6: IsSafe denies every path that is named .git, has a .git directory at
\* any depth below it, or lies inside a tree one of whose ancestor directories,
\* up to the filesystem root, contains .git; a path with no .git below it or
\* at any ancestor level is not reported as a Git repository.
C6_GitDenied ==
    probe # <<>> =>
        /\ GitRelated(fs, Denoted(probe)) => ~verdict.safe
        /\ ~GitRelated(fs, Denoted(probe)) => verdict.reason # ReasonGit

----------------------------------------------------------------------------
(* Scan specification: one Scan call, its workers interleaved *)

NpmDir == Join(Home, <<".npm">>)
DocsDir == HomeDir("Documents")
DownloadsDir == HomeDir("Downloads")

FsScan ==
    [p \in { Root, <<"", "Users">>, Home, <<"", "tmp">>, <<"", "tmp", "a">>,
             HomeDir("Library"), CachesDir, Join(CachesDir, <<"important">>),
             NpmDir, Join(NpmDir, <<"_logs">>),
             DocsDir, Join(DocsDir, <<"repo">>),
             Join(DocsDir, <<"repo", ".git">>),
             DownloadsDir, HomeDir("Desktop") } |-> DirNode(1)]
    @@ (Join(CachesDir, <<"Homebrew">>) :> DirNode(4))
    @@ (Join(NpmDir, <<"_cacache">>) :> DirNode(2))
    @@ (<<"", "tmp", "a", "x">> :> FileNode(50, 1))
    @@ (Join(CachesDir, <<"Homebrew", "big">>) :> FileNode(1500, 1))
    @@ (Join(CachesDir, <<"important", "x">>) :> FileNode(200, 1))
    @@ (Join(NpmDir, <<"_cacache", "x">>) :> FileNode(1200, 1))
    @@ (Join(NpmDir, <<"_logs", "x">>) :> FileNode(500, 1))
    @@ (Join(DocsDir, <<"repo", ".git", "big">>) :> FileNode(104857601, 1))
    @@ (Join(DownloadsDir, <<"big">>) :> FileNode(104857601, 1))
    @@ (Join(DownloadsDir, <<"y">>) :> FileNode(104857600, 1))

\* the same with a Git repository in ~/.npm/_logs and with
\* ~/Library/Caches/Homebrew unreadable
FsScanGitLocked ==
    [((Join(NpmDir, <<"_logs", ".git">>) :> DirNode(1)) @@ FsScan)
        EXCEPT ![Join(CachesDir, <<"Homebrew">>)].readable = FALSE]

ScanFsCases == {FsScan, FsScanGitLocked}

ExcludedCases ==
    { <<>>,
      << <<"~", "Library", "Caches", "important">> >>,
      << <<"", "tmp", "a">>, <<"~", "Downloads">> >> }

ScanOptions ==
    { o \in [Category : {"", "package managers", "SYSTEM"},
             SizeThreshold : {0, 1000},
             ExcludedPaths : ExcludedCases,
             OlderThan : {0, 3},
             LargeFileMode : BOOLEAN] :
        o.LargeFileMode => o.Category = "" /\ o.OlderThan = 0 }

\* Scan has just been called
InitScan ==
    /\ fs \in ScanFsCases
    /\ now = 5
    /\ ret = NoRet
    /\ args = <<>>
    /\ moved = <<>>
    /\ pre = fs
    /\ calls = 0
    /\ before = fs
    /\ probe = <<>>
    /\ verdict = NoVerdict
    /\ opts \in ScanOptions
    /\ mainPc = "spawn"
    /\ ri = 1
    /\ wk = [w \in Workers |-> IdleWorker]
    /\ results = <<>>
    /\ totalSize = 0
    /\ mu = 0
    /\ wg = 0
    /\ out = NoOut
    /\ CleanIdle

NextScan ==
    \/ SkipRule
    \/ Spawn
    \/ SpawnDone
    \/ \E w \in Workers : WorkerEval(w)
    \/ \E w \in Workers : WorkerLock(w)
    \/ \E w \in Workers : WorkerAppend(w)
    \/ \E w \in Workers : WorkerRead(w)
    \/ \E w \in Workers : WorkerWrite(w)
    \/ \E w \in Workers : WorkerUnlock(w)
    \/ ScanReturn

SpecScan == InitScan /\ [][NextScan]_vars

----------------------------------------------------------------------------
(* Properties of the scanner *)

\* the found paths of the returned Results, with the Result they are in
FoundAt == {<<i, j>> \in (1..Len(out.Results)) \X (1..3) :
               j <= Len(out.Results[i].FoundPaths)}

Found(ij) == out.Results[ij[1]].FoundPaths[ij[2]]

\* C3: every path in any FoundPaths of a returned ScanResults, in either scan
\* mode, is a path IsSafe allows.
C3_SafetyGate ==
    out.returned => \A ij \in FoundAt : IsSafe(fs, Found(ij)).safe

RECURSIVE SumTotals(_, _)
SumTotals(rs, i) ==
    IF i > Len(rs) THEN 0 ELSE rs[i].TotalSize + SumTotals(rs, i + 1)

\* the sizes of the workers that have stored their update of totalSize
RECURSIVE SumStored(_)
SumStored(w) ==
    IF w = 0 THEN 0
    ELSE (IF wk[w].pc \in {"unlock", "done"} THEN wk[w].ruleSize ELSE 0)
         + SumStored(w - 1)

\* C4: the returned TotalSize is the sum of the returned Results' TotalSize,
\* under every interleaving of the workers; while the scan runs, the running
\* total holds the size of every worker that has stored its update.
C4_TotalIsSum ==
    /\ out.returned => out.TotalSize = SumTotals(out.Results, 1)
    /\ mainPc # "idle" => totalSize = SumStored(Len(dirsToScan))

C4_Witness ==
    /\ out.returned
    /\ Len(out.Results) >= 3
    /\ out.Results[1].Rule.Name = "User Caches"
    /\ out.TotalSize = SumTotals(out.Results, 1)

\* C7: no path lying under an ExcludedPaths prefix is in the FoundPaths of any
\* returned Result, in either scan mode.
C7_ExcludedAbsent ==
    out.returned =>
        \A ij \in FoundAt : \A k \in 1..Len(opts.ExcludedPaths) :
            ~Under(Denoted(opts.ExcludedPaths[k]), Denoted(Found(ij)))

\* the rule categories a filter value of the model names, letter case aside
Named(filter) ==
    CASE filter = "package managers" -> {"Package Managers"}
      [] filter = "SYSTEM" -> {"System"}
      [] filter = "" -> {"Package Managers", "System", "Containers", "Custom"}

\* C8: in rule-based mode a rule is evaluated, and can have a Result, only if
\* the filter is empty or names its category up to letter case; every rule
\* whose category the filter names is evaluated.
C8_CategoryFilter ==
    (out.returned /\ ~opts.LargeFileMode) =>
        /\ \A i \in 1..Len(out.Results) :
              out.Results[i].Rule.Category \in Named(opts.Category)
        /\ \A w \in 1..Len(allRules) :
              IF allRules[w].Category \in Named(opts.Category)
              THEN wk[w].pc = "done"
              ELSE wk[w].pc = "none"

C8_Witness ==
    /\ out.returned
    /\ opts.Category = "package managers"
    /\ Len(out.Results) = 2
    /\ wk[3].pc = "none"

\* the Results returned for the rule of worker w
ResultsOf(w) ==
    {i \in 1..Len(out.Results) : out.Results[i].Rule.Name = allRules[w].Name}

\* what the rule of worker w matches when no size threshold is set
Matched(w) ==
    RuleLoop(fs, [opts EXCEPT !.SizeThreshold = 0], allRules[w], 1, <<>>, 0, now)

\* the Results for worker w's rule are: none if paths is empty, else exactly
\* one, listing paths with total size
Contributes(w, paths, size) ==
    IF paths = <<>> THEN ResultsOf(w) = {}
    ELSE /\ Cardinality(ResultsOf(w)) = 1
         /\ \A i \in ResultsOf(w) :
               /\ out.Results[i].FoundPaths = paths
               /\ out.Results[i].TotalSize = size

\* C9 as claimed: with a size threshold set, a rule whose matched paths sum to
\* less than the threshold contributes nothing, and any other rule contributes
\* one Result with all its matched paths and their summed size.
C9_ThresholdOnSum ==
    (out.returned /\ ~opts.LargeFileMode /\ opts.SizeThreshold > 0) =>
        \A w \in 1..Len(allRules) :
            wk[w].pc = "done" =>
                IF Matched(w).ruleSize < opts.SizeThreshold
                THEN ResultsOf(w) = {}
                ELSE Contributes(w, Matched(w).foundPaths, Matched(w).ruleSize)

RECURSIVE SumSizes(_, _)
SumSizes(paths, i) ==
    IF i > Len(paths) THEN 0
    ELSE dirSize(fs, paths[i]).size + SumSizes(paths, i + 1)

\* the matched paths whose own size reaches the threshold
BigEnough(w) ==
    SelectSeq(Matched(w).foundPaths,
              LAMBDA p : dirSize(fs, p).size >= opts.SizeThreshold)

\* C9 amended: the threshold applies to each matched path on its own; the
\* rule contributes one Result with the matched paths whose own size is at
\* least the threshold and the sum of their sizes, or nothing if none is.
C9_ThresholdPerPath ==
    (out.returned /\ ~opts.LargeFileMode /\ opts.SizeThreshold > 0) =>
        \A w \in 1..Len(allRules) :
            wk[w].pc = "done" =>
                Contributes(w, BigEnough(w), SumSizes(BigEnough(w), 1))

C9_Witness ==
    /\ out.returned
    /\ opts.SizeThreshold = 1000
    /\ Len(Matched(2).foundPaths) = 2
    /\ \E i \in ResultsOf(2) : Len(out.Results[i].FoundPaths) = 1
    /\ Len(Matched(5).foundPaths) = 1
    /\ ResultsOf(5) = {}

\* the recursive size of the tree at p: its files' sizes
TreeSize(f, p) ==
    SumData(f, {q \in DOMAIN f : Under(p, q) /\ f[q].kind = "file"})

\* every directory of the tree at p can be listed
Sizable(f, p) ==
    \A q \in DOMAIN f : (Under(p, q) /\ f[q].kind = "dir") => f[q].readable

\* the expanded patterns of a rule that are not excluded, exist, are allowed by
\* IsSafe and can be sized, in pattern order
RECURSIVE Eligible(_, _)
Eligible(paths, i) ==
    IF i > Len(paths) THEN <<>>
    ELSE LET e == ExpandPath(paths[i])
         IN  (IF /\ ~IsExcluded(opts, e)
                 /\ Denoted(e) \in DOMAIN fs
                 /\ IsSafe(fs, e).safe
                 /\ Sizable(fs, Denoted(e))
              THEN <<e>> ELSE <<>>) \o Eligible(paths, i + 1)

RECURSIVE SumTrees(_, _)
SumTrees(paths, i) ==
    IF i > Len(paths) THEN 0
    ELSE TreeSize(fs, Denoted(paths[i])) + SumTrees(paths, i + 1)

\* C10: with no size threshold and no age filter, a rule's Result lists exactly
\* its patterns (expanded, in order) that are not excluded, exist, are allowed
\* by IsSafe and can be sized, and its TotalSize is the sum of their recursive
\* sizes; a rule with no such pattern has no Result.
C10_RuleResult ==
    (out.returned /\ ~opts.LargeFileMode /\ opts.SizeThreshold = 0
        /\ opts.OlderThan = 0) =>
        \A w \in 1..Len(allRules) :
            wk[w].pc = "done" =>
                Contributes(w, Eligible(allRules[w].Paths, 1),
                            SumTrees(Eligible(allRules[w].Paths, 1), 1))

C10_Witness ==
    /\ out.returned
    /\ opts.SizeThreshold = 0
    /\ opts.OlderThan = 0
    /\ opts.ExcludedPaths = <<>>
    /\ \E i \in ResultsOf(5) :
          /\ out.Results[i].FoundPaths = << <<"", "tmp", "a">> >>
          /\ out.Results[i].TotalSize = 50
    /\ \E i \in ResultsOf(3) : out.Results[i].TotalSize = 1700

\* the rule of worker w contributes: the category filter lets it through and
\* its loop over its patterns finds at least one path
RuleContributes(w) ==
    /\ ~CategorySkips(opts, allRules[w])
    /\ RuleLoop(fs, opts, allRules[w], 1, <<>>, 0, now).foundPaths # <<>>

\* C21: when a rule-based Scan has returned, Results holds exactly one entry
\* for each rule that contributed and none for any other rule: every entry is
\* for a rule of the registry, no rule has two entries, and no entry has an
\* empty FoundPaths.
C21_OneEntryPerRule ==
    (out.returned /\ ~opts.LargeFileMode) =>
        /\ \A i \in 1..Len(out.Results) :
              /\ out.Results[i].FoundPaths # <<>>
              /\ \E w \in 1..Len(allRules) : out.Results[i].Rule = allRules[w]
        /\ \A w \in 1..Len(allRules) :
              Cardinality(ResultsOf(w)) = IF RuleContributes(w) THEN 1 ELSE 0
        /\ Len(out.Results) =
              Cardinality({w \in 1..Len(allRules) : RuleContributes(w)})

C21_Witness ==
    /\ out.returned
    /\ ~opts.LargeFileMode
    /\ Len(out.Results) = 3
    /\ RuleContributes(1)
    /\ RuleContributes(2)
    /\ RuleContributes(3)
    /\ wk[5].pc = "done"
    /\ ~RuleContributes(5)
    /\ ResultsOf(5) = {}

\* the workers between mu.Lock() and mu.Unlock(): appending to results or
\* updating totalSize
InCritical == {w \in Workers : wk[w].pc \in {"append", "read", "write", "unlock"}}

\* C28: a worker that appends to results or updates totalSize holds the
\* mutex, at most one worker does so at a time, and the holder of the mutex
\* is never a worker doing its filesystem work (stat, walk, sizing).
C28_MutexDiscipline ==
    /\ \A w \in InCritical : mu = w
    /\ Cardinality(InCritical) <= 1
    /\ mu # 0 => mu \in InCritical
    /\ \A w \in Workers : wk[w].pc = "start" => mu # w

C28_Witness ==
    \E w, v, u \in Workers :
        /\ wk[w].pc = "append"
        /\ mu = w
        /\ wk[v].pc = "lock"
        /\ wk[u].pc = "start"

----------------------------------------------------------------------------
(* Scan under a fair scheduler: every filesystem call returns and a runnable *)
(* goroutine is eventually run                                               *)

LiveOptions ==
    {o \in ScanOptions :
        o.SizeThreshold = 0 /\ o.ExcludedPaths = <<>> /\ o.OlderThan = 0}

InitScanLive ==
    /\ InitScan
    /\ opts \in LiveOptions

\* the steps of the goroutine that called Scan
MainStep == SkipRule \/ Spawn \/ SpawnDone \/ ScanReturn

\* the steps of worker w after its filesystem work
WorkerStep(w) ==
    \/ WorkerLock(w)
    \/ WorkerAppend(w)
    \/ WorkerRead(w)
    \/ WorkerWrite(w)
    \/ WorkerUnlock(w)

\* the filesystem work of worker w returns: WorkerEval(w) is enabled exactly
\* when the worker is at "start" and leaves it, so this is its weak fairness
\* written with the enabling condition
EvalReturns(w) == []<>(wk[w].pc # "start")

SpecScanLive ==
    /\ InitScanLive
    /\ [][NextScan]_vars
    /\ WF_vars(MainStep)
    /\ \A w \in Workers : WF_vars(WorkerStep(w)) /\ EvalReturns(w)

\* what worker w finds: the outcome of its loop or walk
Contribution(w) ==
    IF opts.LargeFileMode
    THEN LargeWalk(fs, opts, ExpandPath(dirsToScan[w]))
    ELSE IF CategorySkips(opts, allRules[w])
    THEN [foundPaths |-> <<>>, ruleSize |-> 0]
    ELSE RuleLoop(fs, opts, allRules[w], 1, <<>>, 0, now)

\* once Scan has returned: every spawned worker has finished, the returned
\* Results hold the contribution of every rule or directory that contributes,
\* and the list and the total are what was returned
Joined ==
    out.returned =>
        /\ \A w \in Workers : wk[w].pc \in {"none", "done"}
        /\ wg = 0
        /\ \A w \in 1..NumTasks(opts) :
              Contribution(w).foundPaths # <<>> =>
                  \E i \in 1..Len(out.Results) :
                      /\ out.Results[i].FoundPaths = Contribution(w).foundPaths
                      /\ out.Results[i].TotalSize = Contribution(w).ruleSize
        /\ results = out.Results
        /\ totalSize = out.TotalSize

\* C29: Scan returns only after every worker it spawned has finished, with
\* the contribution of every rule or directory that contributes, and nothing
\* is appended or added to the total after the return; under a fair scheduler
\* Scan eventually returns.
C29_WaitBarrier == []Joined /\ <>out.returned

C29_Witness ==
    /\ out.returned
    /\ Len(out.Results) >= 3
    /\ \A w \in 1..3 : wk[w].pc = "done"
    /\ results = out.Results

----------------------------------------------------------------------------
(* The outcome of Scan as a function of the filesystem, catalog and options *)

\* the rules or directories whose worker finds something
Contributing == {w \in 1..NumTasks(opts) : Contribution(w).foundPaths # <<>>}

ExpectedResult(w) ==
    Result(IF opts.LargeFileMode THEN LargeRule ELSE allRules[w],
           Contribution(w).foundPaths, Contribution(w).ruleSize)

RECURSIVE ExpectedTotal(_)
ExpectedTotal(w) ==
    IF w = 0 THEN 0 ELSE Contribution(w).ruleSize + ExpectedTotal(w - 1)

\* the workers that have appended their Result
Appended == {w \in Workers : wk[w].pc \in {"read", "write", "unlock"}
                              \/ (wk[w].pc = "done" /\ wk[w].foundPaths # <<>>)}

\* C30: for a given filesystem, catalog and options the Results Scan returns,
\* their order aside, and TotalSize are the same under every interleaving of
\* the workers: one Result for each contributing rule or directory, and the
\* sum of their sizes; while the scan runs the list holds the Result of every
\* worker that has appended, and nothing else.
C30_OrderOnly ==
    /\ out.returned =>
           /\ {out.Results[i] : i \in 1..Len(out.Results)}
                  = {ExpectedResult(w) : w \in Contributing}
           /\ Len(out.Results) = Cardinality(Contributing)
           /\ out.TotalSize = ExpectedTotal(NumTasks(opts))
    /\ Len(results) = Cardinality(Appended)
    /\ \A w \in Appended :
           \E i \in 1..Len(results) :
               /\ results[i].FoundPaths = wk[w].foundPaths
               /\ results[i].TotalSize = wk[w].ruleSize

\* a return whose first Result is not that of the first contributing rule
C30_Witness ==
    /\ out.returned
    /\ {1, 2, 3} \subseteq Contributing
    /\ out.Results[1] = ExpectedResult(3)
    /\ out.Results[Len(out.Results)] = ExpectedResult(1)

----------------------------------------------------------------------------
(* Clean specification: one run of the command line, from the Scan it       *)
(* starts to the Clean of the results it selects                            *)

ConfigCases ==
    { NoConfig,
      Config(<<"Package Managers">>,
             << <<"~", "Library", "Caches", "important">> >>, 0),
      Config(<<>>, <<>>, 1) }

\* the --category and --large flags of the command line
CliFlags ==
    { [category |-> "", large |-> FALSE],
      [category |-> "SYSTEM", large |-> FALSE],
      [category |-> "", large |-> TRUE] }

\* no flag given
DefaultFlags == [category |-> "", large |-> FALSE]

\* the ScanOptions runScan and runClean build
OptionsOf(c, flags) ==
    [Category |-> flags.category,
     ExcludedPaths |-> c.ExcludedPaths,
     SizeThreshold |-> c.SizeThresholdMB * 1024 * 1024,
     OlderThan |-> 0,
     LargeFileMode |-> flags.large]

OldEntry == Entry("20260101_000001", 1, 10, 1, ("System" :> 10))

\* the scanned filesystem with a history of one entry, and with a history
\* file that is no JSON
FsHistory ==
    FsScan @@ (Join(Home, <<".burrow">>) :> DirNode(1))
           @@ (HistoryPath :> HistoryNode(1, <<OldEntry>>))

FsHistoryBad ==
    FsScan @@ (Join(Home, <<".burrow">>) :> DirNode(1))
           @@ (HistoryPath :> FileNode(1, 1))

\* the scanned filesystem with a Docker configuration directory
FsDocker ==
    FsScan @@ (Join(Home, <<".docker">>) :> DirNode(1))
           @@ (Join(Home, <<".docker", "x">>) :> FileNode(30, 1))

CleanFsCases == {FsScan, FsHistory, FsHistoryBad, FsDocker}

\* the command line has loaded the configuration and calls Scan
InitClean ==
    /\ fs \in CleanFsCases
    /\ now = 5
    /\ ret = NoRet
    /\ args = <<>>
    /\ moved = <<>>
    /\ pre = fs
    /\ calls = 0
    /\ before = fs
    /\ probe = <<>>
    /\ verdict = NoVerdict
    /\ cfg \in ConfigCases
    /\ \E flags \in CliFlags : opts = OptionsOf(cfg, flags)
    /\ fs # FsScan => cfg = NoConfig /\ opts = OptionsOf(NoConfig, DefaultFlags)
    /\ mainPc = "spawn"
    /\ ri = 1
    /\ wk = [w \in Workers |-> IdleWorker]
    /\ results = <<>>
    /\ totalSize = 0
    /\ mu = 0
    /\ wg = 0
    /\ out = NoOut
    /\ cin = <<>>
    /\ cres = NoClean
    /\ cpre = fs

\* the selections the command line makes among n results: all of them
\* (burrow clean, or "all") or one of them (burrow scan --interactive)
Selections(n) == {1..n} \cup {{i} : i \in 1..n}

\* toClean: the selected results, in the order of the scan
Pick(rs, S) ==
    LET idx == SelectSeq([i \in 1..Len(rs) |-> i], LAMBDA i : i \in S)
    IN  [k \in 1..Len(idx) |-> rs[idx[k]]]

\* the command line calls Clean on the selected results
CleanerClean(S, dryRun) ==
    \E r \in {CleanRes(fs, Pick(out.Results, S), dryRun, now)} :
        /\ mainPc = "done"
        /\ cres.op = "none"
        /\ Len(out.Results) > 0
        /\ cin' = Pick(out.Results, S)
        /\ cpre' = fs
        /\ fs' = r.fs
        /\ cres' = [op |-> "clean", dryRun |-> dryRun, err |-> r.err,
                    res |-> r.res]
        /\ IF r.moved
           THEN /\ ret' = [op |-> "move", err |-> r.mv.err,
                           session |-> r.mv.session, prev |-> Outcome(ret)]
                /\ args' = r.paths
                /\ moved' = r.mv.entries
                /\ pre' = fs
                /\ calls' = calls + 1
           ELSE UNCHANGED <<ret, args, moved, pre, calls>>
        /\ UNCHANGED <<now, before, cfg, safeVars, scanVars>>

NextClean ==
    \/ NextScan
    \/ \E S \in Selections(Len(out.Results)) : \E dryRun \in BOOLEAN :
          CleanerClean(S, dryRun)

SpecClean == InitClean /\ [][NextClean]_vars

----------------------------------------------------------------------------
(* Properties of the cleaner *)

\* the FoundPaths of the results rs, one after the other
RECURSIVE Concat(_, _)
Concat(rs, i) ==
    IF i > Len(rs) THEN <<>> ELSE rs[i].FoundPaths \o Concat(rs, i + 1)

\* C17: Clean in dry-run mode changes nothing on the filesystem (no session
\* directory, no moved path, no history record), calls no MoveToTrash, and
\* returns the sum of the Results' TotalSize, the number of found paths and
\* the session identifier "DRY-RUN".
C17_DryRun ==
    (cres.op = "clean" /\ cres.dryRun) =>
        /\ fs = cpre
        /\ calls = 0
        /\ ~cres.err
        /\ cres.res = [nil |-> FALSE,
                       ReclaimedSpace |-> SumTotals(cin, 1),
                       FileCount |-> Len(Concat(cin, 1)),
                       TrashSession |-> "DRY-RUN"]

C17_Witness ==
    /\ cres.op = "clean"
    /\ cres.dryRun
    /\ Len(cin) >= 2
    /\ cres.res.FileCount >= 3
    /\ cres.res.ReclaimedSpace > 0
    /\ fs = cpre
    /\ TrashBaseDir \notin DOMAIN fs

\* the entries of the history file of f, <<>> if it has none that parses
HistoryOf(f) ==
    IF HistoryPath \in DOMAIN f /\ f[HistoryPath].json.ok
    THEN f[HistoryPath].json.entries
    ELSE <<>>

\* the history file is in f what it is in g
SameHistory(f, g) ==
    IF HistoryPath \in DOMAIN g
    THEN HistoryPath \in DOMAIN f /\ f[HistoryPath] = g[HistoryPath]
    ELSE HistoryPath \notin DOMAIN f

\* the history of f is the history of g with one record more, at the end,
\* for the given session, size and count
OneRecordMore(f, g, session, size, count) ==
    LET new == HistoryOf(f)
        old == HistoryOf(g)
    IN  /\ Len(new) = Len(old) + 1
        /\ new[Len(new)].ID = session
        /\ new[Len(new)].ReclaimedBytes = size
        /\ new[Len(new)].FileCount = count
        /\ \A k \in 1..Len(old) : \E j \in 1..Len(old) : new[j] = old[k]

\* C18: a Clean that is no dry run makes one MoveToTrash call, on the
\* concatenation of the Results' FoundPaths; if that call succeeds Clean
\* returns the summed size, the path count and the call's session identifier
\* and the history gains exactly one record with these values; if it fails
\* Clean returns an error and no result, and the history is as it was.
C18_CleanMoves ==
    (cres.op = "clean" /\ ~cres.dryRun) =>
        /\ calls = 1
        /\ ret.op = "move"
        /\ args = Concat(cin, 1)
        /\ IF ret.err
           THEN /\ cres.err
                /\ cres.res.nil
                /\ SameHistory(fs, cpre)
           ELSE /\ ~cres.err
                /\ cres.res = [nil |-> FALSE,
                               ReclaimedSpace |-> SumTotals(cin, 1),
                               FileCount |-> Len(Concat(cin, 1)),
                               TrashSession |-> ret.session]
                /\ ret.session # ""
                /\ OneRecordMore(fs, cpre, ret.session, SumTotals(cin, 1),
                                 Len(Concat(cin, 1)))

C18_Witness ==
    /\ cres.op = "clean"
    /\ ~cres.dryRun
    /\ ~cres.err
    /\ Len(cin) >= 2
    /\ Len(HistoryOf(cpre)) = 1
    /\ Len(HistoryOf(fs)) = 2
    /\ HistoryOf(fs)[2].ID = cres.res.TrashSession

C18_WitnessFailed ==
    /\ cres.op = "clean"
    /\ ~cres.dryRun
    /\ cres.err
    /\ Len(moved) >= 1
    /\ Len(HistoryOf(fs)) = 1

\* category c is listed in the configuration's disabled_categories
Disabled(c) ==
    \E k \in 1..Len(cfg.DisabledCategories) : cfg.DisabledCategories[k] = c

\* C20: no rule whose category is listed in disabled_categories has a Result
\* in the scan the command line started, and none is among the Results whose
\* paths Clean moves to the trash.
C20_DisabledHonoured ==
    /\ out.returned =>
          \A i \in 1..Len(out.Results) :
              ~Disabled(out.Results[i].Rule.Category)
    /\ (cres.op = "clean" /\ ~cres.dryRun) =>
          \A i \in 1..Len(cin) : ~Disabled(cin[i].Rule.Category)

\* the path s lies at or beneath ~/Documents, ~/Desktop or ~/Downloads
InUserDocs(s) ==
    \E i \in 1..Len(userDocPaths) : Under(userDocPaths[i], Denoted(s))

\* C22: no path at or beneath ~/Documents, ~/Desktop or ~/Downloads is in a
\* Result handed to Clean, and none is moved to trash.
C22_UserDocsKept ==
    /\ \A i \in 1..Len(cin) : \A j \in 1..Len(cin[i].FoundPaths) :
          ~InUserDocs(cin[i].FoundPaths[j])
    /\ \A i \in 1..Len(moved) : ~InUserDocs(moved[i].original_path)

DockerRule == "Docker System Usage"

\* C23: the Docker rule is inspection-only: a path found for the rule
\* "Docker System Usage" is never among the paths a clean passes to
\* MoveToTrash, and nothing at or beneath ~/.docker is moved.
C23_DockerInspectOnly ==
    (cres.op = "clean" /\ ~cres.dryRun) =>
        /\ \A i \in 1..Len(cin) :
              cin[i].Rule.Name = DockerRule =>
                  \A j \in 1..Len(cin[i].FoundPaths) :
                      \A k \in 1..Len(args) : args[k] # cin[i].FoundPaths[j]
        /\ \A k \in 1..Len(moved) :
              ~Under(Join(Home, <<".docker">>), Denoted(moved[k].original_path))

----------------------------------------------------------------------------
(* Sessions specification: several MoveToTrash calls, in the same second or *)
(* in different ones, and the RestoreLast calls that undo them              *)

MaxSessions == 2

SessionArgs == { <<"", "tmp", "a", "x">>, <<"", "tmp", "b", "x">> }

SessionLists ==
    {l \in PathLists : l # <<>> /\ \A i \in 1..Len(l) : l[i] \in SessionArgs}

InitSessions ==
    /\ fs \in UndoFsCases
    /\ now = 1
    /\ ret = NoRet
    /\ args = <<>>
    /\ moved = <<>>
    /\ pre = fs
    /\ calls = 0
    /\ before = fs
    /\ probe = <<>>
    /\ verdict = NoVerdict
    /\ ScanIdle
    /\ CleanIdle

NextSessions ==
    \/ \E paths \in SessionLists : \E failAt \in 0..Len(paths) :
          calls < MaxSessions /\ MoveToTrash(paths, failAt)
    \/ RestoreLast
    \/ Tick

SpecSessions == InitSessions /\ [][NextSessions]_vars

----------------------------------------------------------------------------
(* Further properties of the trash manager *)

\* the restore loop run from the i-th manifest entry back to the first
RECURSIVE RestoreReversed(_, _, _, _)
RestoreReversed(f, entries, i, t) ==
    IF i < 1 THEN f
    ELSE LET entry == entries[i]
             mk == MkdirAll(f, Dir(entry.original_path), t)
             r == Rename(mk.fs, entry.trash_path, entry.original_path, t)
         IN  IF ~mk.ok THEN RestoreReversed(f, entries, i - 1, t)
             ELSE RestoreReversed(r.fs, entries, i - 1, t)

\* f and g hold the same files and directories with the same content
SameContent(f, g) ==
    /\ DOMAIN f = DOMAIN g
    /\ \A q \in DOMAIN f : f[q].kind = g[q].kind /\ f[q].data = g[q].data

\* C24: RestoreLast replays the manifest in reverse: what it leaves behind is
\* what restoring the entries from the last recorded to the first leaves.
C24_ReverseReplay ==
    ManifestParsed =>
        SameContent(fs,
                    RemoveAll(RestoreReversed(before, UndoneManifest.entries,
                                              Len(UndoneManifest.entries), now),
                              UndoneDir, now))

\* C25: a session's manifest is written once, when the session is created:
\* no MoveToTrash call moves a path into a session directory that existed
\* before the call, or replaces a manifest that an earlier call wrote.
C25_ManifestOnce ==
    ret.op = "move" =>
        /\ \A i \in 1..Len(moved) :
              Parent(moved[i].trash_path) \notin DOMAIN pre
        /\ \A s \in SessionDirs(pre) :
              Join(s, ManifestName) \in DOMAIN pre =>
                  /\ Join(s, ManifestName) \in DOMAIN fs
                  /\ fs[Join(s, ManifestName)] = pre[Join(s, ManifestName)]

\* the directories directly in the trash root of f
TrashRootDirs(f) ==
    {q \in DOMAIN f : q # Root /\ Parent(q) = TrashBaseDir /\ f[q].kind = "dir"}

\* C26: a successful RestoreLast has acted on the directory of the trash root
\* whose name is the greatest (entries that are no directories do not count);
\* afterwards that session directory is gone, so it is not restored again,
\* and the sessions that remain are all older, so that repeated calls undo
\* the sessions from the most recent to the oldest; a RestoreLast that fails
\* falls back on no other session.
C26_RestoresLatest ==
    /\ (ret.op = "restore" /\ ~ret.err) =>
          LET s == Join(TrashBaseDir, <<ret.session>>)
          IN  /\ s \in TrashRootDirs(before)
              /\ \A q \in TrashRootDirs(before) :
                    Rank(q[Len(q)]) <= Rank(ret.session)
              /\ \A q \in DOMAIN fs : ~Under(s, q)
              /\ TrashRootDirs(fs) = TrashRootDirs(before) \ {s}
              /\ \A q \in TrashRootDirs(fs) :
                    Rank(q[Len(q)]) < Rank(ret.session)
    /\ (ret.op = "restore" /\ ret.err) => fs = before

C26_Witness ==
    /\ ret.op = "restore"
    /\ ~ret.err
    /\ ret.prev = "restore"
    /\ Cardinality(TrashRootDirs(before)) = 1
    /\ \E q \in DOMAIN before :
          /\ q # Root
          /\ Parent(q) = TrashBaseDir
          /\ before[q].kind = "file"
          /\ Rank(q[Len(q)]) > Rank(ret.session)
    /\ TrashRootDirs(fs) = {}
    /\ calls = 2

\* the filesystem after n RestoreLast calls in a row
RECURSIVE RestoreTimes(_, _, _)
RestoreTimes(f, n, t) ==
    IF n = 0 THEN f ELSE RestoreTimes(RestoreLastRes(f, t).fs, n - 1, t)

\* session directory s of f holds a manifest whose entries can all be put
\* back: each trashed item is there, under a trash path of its own, and its
\* original location is free
Intact(f, s) ==
    LET m == ReadManifest(f, Join(s, ManifestName))
    IN  /\ ~m.err
        /\ m.entries # <<>>
        /\ \A i \in 1..Len(m.entries) :
              /\ m.entries[i].trash_path \in DOMAIN f
              /\ Abs(m.entries[i].original_path) \notin DOMAIN f
              /\ \A j \in 1..Len(m.entries) :
                    m.entries[i].trash_path = m.entries[j].trash_path => i = j

\* in g the paths of session s of f are back where they came from
PutBack(f, g, s) ==
    LET m == ReadManifest(f, Join(s, ManifestName))
    IN  \A i \in 1..Len(m.entries) :
            /\ Abs(m.entries[i].original_path) \in DOMAIN g
            /\ g[Abs(m.entries[i].original_path)].kind =
                  f[m.entries[i].trash_path].kind
            /\ g[Abs(m.entries[i].original_path)].data =
                  f[m.entries[i].trash_path].data

\* C27: after a MoveToTrash call that failed partway in a session directory
\* of its own, every earlier session that is intact is still restorable: some
\* number of RestoreLast calls, at most one for each directory of the trash
\* root, puts its paths back.
C27_StaysRestorable ==
    (ret.op = "move" /\ ret.err /\ TrashRootDirs(fs) # TrashRootDirs(pre)) =>
        \A s \in TrashRootDirs(fs) :
            Intact(fs, s) =>
                \E n \in 1..Cardinality(TrashRootDirs(fs)) :
                    PutBack(fs, RestoreTimes(fs, n, now), s)

-----------------------------------------------------------------------------
(* History specification: a run of Save calls, each a second after the one  *)
(* before, on a history that is missing, present or unreadable              *)

MaxSaves == 52

HistoryFsCases == {FsUser, FsHistory, FsHistoryBad}

\* the entry a Clean at second t saves; its ID plays no part in Save or Load
SavedEntry(t) == Entry("session", t, 10, 1, ("System" :> 10))

InitHistory ==
    /\ fs \in HistoryFsCases
    /\ now = 2
    /\ ret = NoRet
    /\ args = <<>>
    /\ moved = <<>>
    /\ pre = fs
    /\ calls = 0
    /\ before = fs
    /\ probe = <<>>
    /\ verdict = NoVerdict
    /\ ScanIdle
    /\ CleanIdle

\* m.Save(entry) with entry.Timestamp = time.Now()
HistorySave ==
    /\ now < MaxSaves + 2
    /\ cpre' = fs
    /\ fs' = Save(fs, SavedEntry(now), now)
    /\ now' = now + 1
    /\ UNCHANGED <<trashVars, safeVars, scanVars, cfg, cin, cres>>

NextHistory == HistorySave

SpecHistory == InitHistory /\ [][NextHistory]_vars

\* the entries of the history file, as a set
Stored(f) == {Load(f).entries[i] : i \in 1..Len(Load(f).entries)}

\* C31: after a Save the history holds at most 50 entries, the one saved is
\* among them, and an entry the Save dropped is older than every entry kept.
C31_KeepsNewest ==
    now > 2 =>
        /\ Len(Load(fs).entries) <= HistoryCap
        /\ SavedEntry(now - 1) \in Stored(fs)
        /\ \A e \in Stored(cpre) \ Stored(fs) :
               \A k \in Stored(fs) : e.Timestamp < k.Timestamp

-----------------------------------------------------------------------------
(* Race specification: one run of the command line in which the filesystem  *)
(* changes between the return of Scan and the call of Clean (the prompt of  *)
(* burrow clean, the selection of burrow scan --interactive)                *)

\* directories among the found paths in which someone may run "git init"
RaceDirs ==
    { Join(CachesDir, <<"Homebrew">>), Join(NpmDir, <<"_logs">>),
      <<"", "tmp", "a">> }

InitRace ==
    /\ InitClean
    /\ fs = FsScan
    /\ cfg = NoConfig

\* "git init" in d while the command line waits for the user's answer
GitInitBeforeClean(d) ==
    /\ mainPc = "done"
    /\ cres.op = "none"
    /\ GitInit(d)

NextRace ==
    \/ NextScan
    \/ \E d \in RaceDirs : GitInitBeforeClean(d)
    \/ \E S \in Selections(Len(out.Results)) : \E dryRun \in BOOLEAN :
          CleanerClean(S, dryRun)

SpecRace == InitRace /\ [][NextRace]_vars

\* the filesystem as the last MoveToTrash found it when it renamed its i-th
\* path: the session directory made, the paths before the i-th moved
FsAtMove(i) ==
    LET sessionDir == Join(TrashBaseDir, Format(now))
    IN  MoveLoop(MkdirAll(pre, sessionDir, now).fs, sessionDir,
                 SubSeq(args, 1, i - 1), 1, <<>>, 0, now).fs

\* C32: every path Clean moves to the trash is one IsSafe allows on the
\* filesystem as it is when the path is moved, whatever happened to the
\* filesystem since the scan.
C32_SafeWhenMoved ==
    cres.op = "clean" /\ ~cres.dryRun =>
        \A i \in 1..Len(moved) :
            IsSafe(FsAtMove(i), moved[i].original_path).safe

-----------------------------------------------------------------------------
(* Further properties of scanning and cleaning *)

\* the files lying under an excluded-path prefix of the options
ExcludedFiles(f) ==
    {q \in DOMAIN f :
        /\ f[q].kind = "file"
        /\ \E k \in 1..Len(opts.ExcludedPaths) :
               Under(Denoted(opts.ExcludedPaths[k]), q)}

\* C33: a file under an excluded-path prefix is still at its place after the
\* results of the scan have been cleaned.
C33_ExcludedKept ==
    cres.op = "clean" /\ ~cres.dryRun =>
        \A q \in ExcludedFiles(cpre) : q \in DOMAIN fs

\* the files that are one of the returned found paths or lie beneath one
Covered ==
    {q \in DOMAIN fs :
        /\ fs[q].kind = "file"
        /\ \E ij \in FoundAt : Under(Denoted(Found(ij)), q)}

\* C34: the returned TotalSize counts no file more than once: it is at most
\* the sum of the sizes of the files the found paths cover, each file taken
\* once.
C34_CountedOnce ==
    out.returned => out.TotalSize <= SumData(fs, Covered)

-----------------------------------------------------------------------------
(* Further properties of the safety validator *)

\* a path string written with the home-directory shorthand, and the path a
\* caller that expands the shorthand itself hands over
Shorthand(s) == s # <<>> /\ s[1] = "~"

CallerExpanded(s) == Clean(Home \o Tail(s))

\* C35: for a path written with the home-directory shorthand, "~/x" or a bare
\* "~", IsSafe returns the verdict and the reason it returns for the same path
\* expanded by the caller.
C35_ShorthandSame ==
    Shorthand(probe) => verdict = IsSafe(fs, CallerExpanded(probe))

\* p is a protected system directory or lies beneath one
UnderSystemPath(p) == \E i \in 1..Len(systemPaths) : Under(systemPaths[i], p)

\* p triggers one of the four vetoes
Vetoed(f, p) ==
    \/ p = Home
    \/ p = Root
    \/ UnderSystemPath(p)
    \/ GitRelated(f, p)
    \/ \E i \in 1..Len(userDocPaths) : p = userDocPaths[i]

\* C36: a path that triggers none of the four vetoes is allowed with an empty
\* reason, and the protected-prefix reason is given only for a protected
\* system directory or a path beneath one.
C36_OthersAllowed ==
    probe # <<>> =>
        /\ ~Vetoed(fs, Denoted(probe)) => verdict = [safe |-> TRUE, reason |-> ""]
        /\ verdict.reason = ReasonSIP => UnderSystemPath(Denoted(probe))

\* the checks of IsSafe that the probed path fails, by their place in the
\* order home/root, protected prefix, version-control metadata, user
\* document directory
FailedChecks ==
    LET absPath == Abs(ExpandPath(probe))
    IN  (IF IsHomeOrRoot(absPath) THEN {1} ELSE {})
        \cup (IF IsSystemPath(absPath) THEN {2} ELSE {})
        \cup (IF isGitRepo(fs, absPath) THEN {3} ELSE {})
        \cup (IF IsUserDocPath(absPath) THEN {4} ELSE {})

ReasonOf(k) ==
    CASE k = 1 -> ReasonHomeRoot
      [] k = 2 -> ReasonSIP
      [] k = 3 -> ReasonGit
      [] k = 4 -> ReasonUserDoc

\* C37: the reason IsSafe returns is that of the earliest check the path
\* fails, in the order home/root, protected prefix, version-control metadata,
\* user document directory.
C37_FirstVetoWins ==
    probe # <<>> /\ FailedChecks # {} =>
        /\ ~verdict.safe
        /\ \E k \in FailedChecks :
               /\ \A j \in FailedChecks : k <= j
               /\ verdict.reason = ReasonOf(k)

\* ~/Documents with a .git directory in it: denied with the Git reason
C37_Witness ==
    /\ probe = HomeDir("Documents")
    /\ FailedChecks = {3, 4}
    /\ verdict = [safe |-> FALSE, reason |-> ReasonGit]

-----------------------------------------------------------------------------
(* Further properties of the scanner *)

\* 100 MiB, in bytes
HundredMiB == 100 * 1024 * 1024

\* the regular files beneath the w-th user directory that are larger than the
\* threshold of the options
BigFiles(w) ==
    {q \in DOMAIN fs :
        /\ Under(Denoted(dirsToScan[w]), q)
        /\ fs[q].kind = "file"
        /\ fs[q].data > (IF opts.SizeThreshold = 0 THEN HundredMiB
                         ELSE opts.SizeThreshold)}

\* the returned Results that list a path beneath the w-th user directory
ResultsIn(w) ==
    {i \in 1..Len(out.Results) :
        \E j \in 1..Len(out.Results[i].FoundPaths) :
            Under(Denoted(dirsToScan[w]), out.Results[i].FoundPaths[j])}

NoAgeFilter == [opts EXCEPT !.OlderThan = 0]

\* the paths of the catalog that the loop of their rule keeps when no age
\* filter is set
KeptWithoutAge ==
    {ExpandPath(allRules[w].Paths[i]) :
        <<w, i>> \in {wi \in (1..Len(allRules)) \X (1..MaxPaths) :
                        /\ wi[2] <= Len(allRules[wi[1]].Paths)
                        /\ ~CategorySkips(opts, allRules[wi[1]])
                        /\ PathFound(fs, NoAgeFilter,
                                     allRules[wi[1]].Paths[wi[2]], now)}}

\* C39: with an age filter set, no found path of a rule-based scan was
\* modified after the cutoff, now minus OlderThan, and every path that would
\* be found without the age filter and was last modified at or before the
\* cutoff is found.
C39_AgeFilter ==
    out.returned /\ ~opts.LargeFileMode /\ opts.OlderThan > 0 =>
        /\ \A ij \in FoundAt : fs[Found(ij)].mtime <= now - opts.OlderThan
        /\ \A q \in KeptWithoutAge :
              fs[Abs(q)].mtime <= now - opts.OlderThan =>
                  \E ij \in FoundAt : Found(ij) = q

\* one path newer than the cutoff is left out, one modified exactly at the
\* cutoff is found
C39_Witness ==
    /\ out.returned
    /\ ~opts.LargeFileMode
    /\ opts.OlderThan > 0
    /\ \E q \in KeptWithoutAge :
          /\ fs[Abs(q)].mtime > now - opts.OlderThan
          /\ \A ij \in FoundAt : Found(ij) # q
    /\ \E ij \in FoundAt : fs[Found(ij)].mtime = now - opts.OlderThan

\* the patterns of the rules the category filter lets through: <<w, i>> is the
\* i-th pattern of the w-th rule
Evaluated ==
    {wi \in (1..Len(allRules)) \X (1..MaxPaths) :
        /\ wi[2] <= Len(allRules[wi[1]].Paths)
        /\ ~CategorySkips(opts, allRules[wi[1]])}

PatternOf(wi) == allRules[wi[1]].Paths[wi[2]]

\* the pattern's path cannot be stat'ed, or its tree cannot be walked
Fails(wi) ==
    \/ Denoted(ExpandPath(PatternOf(wi))) \notin DOMAIN fs
    \/ ~Sizable(fs, Denoted(ExpandPath(PatternOf(wi))))

\* the pattern's path is listed in a Result of its rule
Listed(wi) ==
    \E i \in ResultsOf(wi[1]) :
        \E j \in 1..Len(out.Results[i].FoundPaths) :
            out.Results[i].FoundPaths[j] = ExpandPath(PatternOf(wi))

\* C40: a rule-based Scan returns its results whatever fails: a path that
\* cannot be stat'ed or whose tree cannot be walked is left out, and every
\* other path of the same rule and of the other rules that passes the loop's
\* filters is listed under its rule.
C40_FailureSkipsPath ==
    out.returned /\ ~opts.LargeFileMode =>
        \A wi \in Evaluated :
            /\ Fails(wi) => ~Listed(wi)
            /\ PathFound(fs, opts, PatternOf(wi), now) => Listed(wi)

\* /tmp/b is missing and ~/Library/Caches/Homebrew cannot be listed: /tmp/a
\* of the same rule as /tmp/b, and the npm rule's ~/.npm/_cacache, are listed
C40_Witness ==
    /\ out.returned
    /\ ~opts.LargeFileMode
    /\ {<<5, 2>>, <<1, 1>>} \subseteq {wi \in Evaluated : Fails(wi)}
    /\ ~fs[Join(CachesDir, <<"Homebrew">>)].readable
    /\ Listed(<<5, 1>>)
    /\ Listed(<<2, 1>>)

====
